---- MODULE Spec2Model ----
(***************************************************************************)
(* Habit tracker: the PostgreSQL tables of database.py (users, habits,     *)
(* daily_logs), the coroutines of database.py that read and write them,    *)
(* and the chat handlers of main.py that call them.  Every `await` on a    *)
(* connection is one SQL statement executed atomically (autocommit, no     *)
(* explicit transaction in the source); the event loop may run any other   *)
(* coroutine between two statements of the same call.                      *)
(***************************************************************************)
EXTENDS Naturals, Integers, Sequences, FiniteSets, TLC

(***************************************************************************)
(* Bounds of the model.                                                    *)
(***************************************************************************)
MaxCalls == 2            \* calls started in one behaviour
MaxDay == 2              \* calendar days date.today() runs through
MaxInits == 3            \* init_db calls started on one event loop
MaxRacers == 3           \* add_habit calls of one user running side by side

Users == {1, 2}          \* chat user identifiers
Tasks == {"t1", "t2"}    \* coroutines the event loop interleaves
Dates == 1..MaxDay

(***************************************************************************)
(* Program constants.                                                      *)
(***************************************************************************)
DEFAULT_MAX_HABITS == 2

\* The quota an administrator gives a user by hand ("2 ili 5", docstring of
\* get_user_max_habits).
RAISED_MAX_HABITS == 5

\* The three levels handle_habit_callback writes (main.py 232-237), as
\* sequences of tokens: a word, or " " for one whitespace character.
\* "Net" stands for the source's Cyrillic "Нет", "Bazovyj minimum" for
\* "Базовый минимум", "Horosho potrudilis" for "Хорошо потрудились".
LevelNo == <<"Net">>
LevelMin == <<"Bazovyj", " ", "minimum">>
LevelGood == <<"Horosho", " ", "potrudilis">>
ButtonLevels == {LevelNo, LevelMin, LevelGood}

\* Habit texts handed to add_habit / update_habit_name, as sequences of
\* characters.
AddTexts == { <<"a", "b">> }
NewNames == { <<" ", "c", "d", " ">> }

(***************************************************************************)
(* str.strip(): drops leading and trailing whitespace.                     *)
(***************************************************************************)
\* Mutation: the text is stored as given.
StripNothing(s) == s

RECURSIVE LStrip(_)
LStrip(s) == IF s # <<>> /\ Head(s) = " " THEN LStrip(Tail(s)) ELSE s

RECURSIVE RStrip(_)
RStrip(s) ==
    IF s # <<>> /\ s[Len(s)] = " " THEN RStrip(SubSeq(s, 1, Len(s) - 1)) ELSE s

Strip(s) == RStrip(LStrip(s))

VARIABLES
    users,        \* table users: user_id -> max_habits, 0 when there is no row
    habits,       \* table habits: rows [id, user_id, habit_text]
    habit_seq,    \* last value of the sequence behind habits.id
    daily_logs,   \* table daily_logs: rows [id, habit_id, log_date, efficiency_level]
    log_seq,      \* last value of the sequence behind daily_logs.id
    today,        \* date.today()
    calls,        \* per coroutine: the call it is executing and its locals
    n_calls,      \* calls started so far
    raced,        \* history: users for whom two add_habit calls overlapped
    first_level,  \* history: <<habit_id, log_date, level>> of the first successful save per pair
    deleted_ok,   \* history: <<habit_id, user_id>> for which delete_habit returned success
    conflicted,   \* history: users whose INSERT INTO users met a row and did nothing
    agg,          \* the last get_daily_logs_for_user call: its argument, scan and result
    reminder,     \* the run of send_daily_reminder: its position, rows and send attempts
    cal,          \* the last request to the web API: its arguments, status and body
    state,        \* FSMContext: per user, the conversation state (MemoryStorage)
    data,         \* FSMContext: per user, the habit_id captured by update_data, 0 when unset
    answer,       \* the last message a conversation handler sent without a storage call
    db,           \* one event loop's entry of _pools, the pools built for it and init_db's callers
    racers        \* the add_habit calls of one user running side by side, and their locals

vars == <<users, habits, habit_seq, daily_logs, log_seq, today, calls, n_calls,
          raced, first_level, deleted_ok, conflicted, agg, reminder, cal, state, data, answer,
          db, racers>>

\* The variables the storage calls below leave alone.
\* The conversation: FSM state and data, and the bot's last answer.
chat == <<state, data, answer>>

passive == <<agg, reminder, cal, chat, db, racers>>
others == <<passive, conflicted>>

\* The tables and their sequences; the history variables.
tables == <<users, habits, habit_seq, daily_logs, log_seq>>
history == <<raced, first_level, deleted_ok, conflicted>>

NoQuery == [user_id |-> 0, rows |-> <<>>, out |-> <<>>]

\* send_daily_reminder before the scheduler fires it.
NoRun == [pc |-> "idle", today |-> 0, queried |-> "none", rows |-> <<>>, i |-> 0,
          attempts |-> <<>>]

\* No request made yet.
NoRequest ==
    [endpoint |-> "none", user_id |-> 0, habit_id |-> 0, by_habit |-> FALSE,
     status |-> 0, body |-> {}]

\* Nothing sent yet.
NoAnswer == [user_id |-> 0, text |-> "none"]

\* _pools has no entry for the loop, no pool was built, no init_db is running.
\* pool is the entry (0: none), built the number of pools create_pool has
\* returned (they are numbered 1..built), closed the pools pool.close() was
\* awaited on, tables the tables created, pc and local the position and the
\* local variable pool of each init_db call, got the last outcome of _get_pool.
NoDb ==
    [pool |-> 0, built |-> 0, closed |-> {}, tables |-> {},
     pc |-> [c \in Tasks |-> "idle"], local |-> [c \in Tasks |-> 0],
     inits |-> 0, got |-> "none"]

\* No add_habit call of the racing user has been made.
NoRacers ==
    [i \in 1..MaxRacers |-> [pc |-> "idle", max_habits |-> 0, result |-> "none"]]

\* state.get_state() is None
NoState == "None"

Idle ==
    [op |-> "idle", pc |-> "idle", user_id |-> 0, habit_id |-> 0,
     text |-> <<>>, level |-> <<>>, log_date |-> 0, max_habits |-> 0,
     logs_deleted |-> 0, result |-> "none", response |-> "none",
     handler |-> "none"]

\* The tables before the first call: empty, as init_db creates them, or as
\* earlier calls of user 1 left them (one habit and its log of day 1) and with
\* the quota of user 2 raised by the administrator.
FirstHabit == [id |-> 1, user_id |-> 1, habit_text |-> <<"a", "b">>]
FirstLog == [id |-> 1, habit_id |-> 1, log_date |-> 1, efficiency_level |-> LevelMin]

InitEmpty ==
    /\ users = [u \in Users |-> 0]
    /\ habits = {} /\ habit_seq = 0
    /\ daily_logs = {} /\ log_seq = 0
    /\ first_level = {}

InitOneLog ==
    /\ users = [u \in Users |-> IF u = 1 THEN DEFAULT_MAX_HABITS ELSE RAISED_MAX_HABITS]
    /\ habits = {FirstHabit} /\ habit_seq = 1
    /\ daily_logs = {FirstLog} /\ log_seq = 1
    /\ first_level = {<<1, 1, LevelMin>>}

Init ==
    /\ InitEmpty \/ InitOneLog
    /\ today = 1
    /\ calls = [c \in Tasks |-> Idle]
    /\ n_calls = 0
    /\ raced = {}
    /\ deleted_ok = {}
    /\ conflicted = {}
    /\ agg = NoQuery
    /\ reminder = NoRun
    /\ cal = NoRequest
    /\ state = [u \in Users |-> NoState]
    /\ data = [u \in Users |-> 0]
    /\ answer = NoAnswer
    /\ db = NoDb
    /\ racers = NoRacers

(***************************************************************************)
(* The schema of init_db and the SQL statements of the persistence core,   *)
(* as functions of the tables.                                             *)
(***************************************************************************)

\* Mutation: the table without its UNIQUE constraint.
UniqueHabitDateDropped(habit_id, log_date) == TRUE

\* UNIQUE(habit_id, log_date) of daily_logs: may a row for the pair go in?
UniqueHabitDate(habit_id, log_date) ==
    ~ \E r \in daily_logs : r.habit_id = habit_id /\ r.log_date = log_date

\* Mutation: the table without its foreign key.
ReferencesHabitDropped(habit_id) == TRUE

\* habit_id INTEGER NOT NULL REFERENCES habits(id): may a row naming habit_id go in?
ReferencesHabit(habit_id) == \E h \in habits : h.id = habit_id

\* Mutation: the foreign key without ON DELETE CASCADE.
OnDeleteCascadeDropped(habit_id, deleted) == daily_logs

\* ... ON DELETE CASCADE: the daily_logs rows left once habits row habit_id
\* is deleted (nothing goes when no habits row was deleted).
OnDeleteCascade(habit_id, deleted) ==
    IF deleted = {} THEN daily_logs
    ELSE {r \in daily_logs : r.habit_id # habit_id}

\* Mutation: the ownership SELECT without its user_id condition.
SelectOwnedHabitAnyOwner(habit_id, user_id) == {h \in habits : h.id = habit_id}

\* SELECT id FROM habits WHERE id = $1 AND user_id = $2
\* (update_habit_name; delete_habit runs the same statement, lines 451-455)
SelectOwnedHabit(habit_id, user_id) ==
    {h \in habits : h.id = habit_id /\ h.user_id = user_id}

\* Mutation: the COUNT with its condition negated.
CountOfOtherUsers(user_id) == Cardinality({h \in habits : h.user_id # user_id})

\* SELECT COUNT(*) AS cnt FROM habits WHERE user_id = $1
get_habits_count(user_id) == Cardinality({h \in habits : h.user_id = user_id})

\* Mutation: the quota test removed.
QuotaReachedNever(count, max_habits) == FALSE

\* Mutation: the quota test off by one.
QuotaReachedOffByOne(count, max_habits) == count > max_habits

\* if count >= max_habits: return False, "..."
QuotaReached(count, max_habits) == count >= max_habits

\* SELECT id FROM daily_logs WHERE habit_id = $1 AND log_date = $2
SelectExistingLog(habit_id, log_date) ==
    {r \in daily_logs : r.habit_id = habit_id /\ r.log_date = log_date}

\* has_daily_log(habit_id, log_date)
has_daily_log(habit_id, log_date) ==
    \E r \in daily_logs : r.habit_id = habit_id /\ r.log_date = log_date

\* The rows of a set of habits in ascending id order (ORDER BY id).
RECURSIVE OrderById(_)
OrderById(rows) ==
    IF rows = {} THEN <<>>
    ELSE LET first == CHOOSE r \in rows : \A q \in rows : r.id <= q.id
         IN  <<first>> \o OrderById(rows \ {first})

\* get_habits(user_id): [(habit_id, habit_text), ...] ordered by id
get_habits(user_id) ==
    LET rows == OrderById({h \in habits : h.user_id = user_id})
    IN  [i \in 1..Len(rows) |-> <<rows[i].id, rows[i].habit_text>>]

\* str(log_date): the ISO text of a date, fixed width and zero padded
\* (YYYY-MM-DD); a day number is written here with two digits.
DateKey(log_date) == <<log_date \div 10, log_date % 10>>

\* The rows of a set of logs in ascending log_date order (ORDER BY log_date);
\* used where no two rows have the same date.
RECURSIVE OrderByLogDate(_)
OrderByLogDate(rows) ==
    IF rows = {} THEN <<>>
    ELSE LET first == CHOOSE r \in rows : \A q \in rows : r.log_date <= q.log_date
         IN  <<first>> \o OrderByLogDate(rows \ {first})

\* get_daily_logs_for_habit(habit_id): [(str(log_date), efficiency_level), ...]
get_daily_logs_for_habit(habit_id) ==
    LET rows == OrderByLogDate({q \in daily_logs : q.habit_id = habit_id})
    IN  [i \in 1..Len(rows) |-> <<DateKey(rows[i].log_date), rows[i].efficiency_level>>]

\* The quota get_user_max_habits would report for user_id now.
Quota(user_id) ==
    IF users[user_id] # 0 THEN users[user_id] ELSE DEFAULT_MAX_HABITS

(***************************************************************************)
(* Outcomes of a call.  A coroutine either returns or raises.              *)
(***************************************************************************)
Ok == "ok"                               \* (True, None)
QuotaExceeded == "quota_exceeded"        \* add_habit: (False, "U tebya maksimum ...")
NotFound == "not_found"                  \* (False, "Privychka ne najdena ...")
Created == "created"                     \* save_daily_log: (True, False)
AlreadyExisted == "already_existed"      \* save_daily_log: (False, True)
UniqueViolationError == "UniqueViolationError"
ForeignKeyViolationError == "ForeignKeyViolationError"
StorageError == "StorageError"           \* connectivity loss on a statement
Exceptions == {UniqueViolationError, ForeignKeyViolationError, StorageError}

\* Chat responses of handle_habit_callback and handle_mark_select_habit.
SaveErrorMsg == "Oshibka sohraneniya"
AlreadyMarkedMsg == "Uzhe otmecheno"
SavedMsg == "Progress sohranyon"
UnavailableMsg == "Eta privychka nedostupna"
ChooseLevelMsg == "Kak proshyol den"

\* add_habit: f"U tebya maksimum {max_habits} privychek. ..." (the text that
\* follows the number is the same for every quota)
QuotaExceededMsg(max_habits) ==
    "U tebya maksimum " \o ToString(max_habits) \o " privychek"

\* handle_habit_callback: the answer it gives for the outcome of save_daily_log
HabitCallbackResponse(result) ==
    IF result \in Exceptions THEN SaveErrorMsg
    ELSE IF result = AlreadyExisted THEN AlreadyMarkedMsg
    ELSE SavedMsg

\* What the caller of a raising coroutine tells the user: only
\* handle_habit_callback catches the exception of its storage call.
RaisedResponse(op) ==
    IF op = "handle_habit_callback" THEN SaveErrorMsg ELSE "none"

\* The call returns or raises: its outcome is with the caller, its arguments stay
\* on record, its local max_habits is gone.
Finish(c, result, response) ==
    [calls EXCEPT ![c].pc = "done", ![c].result = result, ![c].response = response,
                  ![c].max_habits = 0]

\* A coroutine slot is free (its call returned or raised, and the handler that
\* made it has answered), and the call budget allows one more call.
CanStart(c) == calls[c].pc \in {"idle", "done"} /\ n_calls < MaxCalls

\* Habit ids a request may name: every id issued so far, and one never issued.
HabitIds == 1..(habit_seq + 1)

Goto(c, pc) == [calls EXCEPT ![c].pc = pc]

(***************************************************************************)
(* add_habit(user_id, habit_text): get_user_max_habits, get_habits_count,  *)
(* the quota test, INSERT INTO habits.  Four statements, three awaits      *)
(* between them.                                                           *)
(***************************************************************************)
\* The call is made by `handler` ("none": the caller is not modelled).
BeginAddHabit(c, user_id, habit_text, handler) ==
    /\ CanStart(c)
    /\ calls' = [calls EXCEPT ![c] =
                    [Idle EXCEPT !.op = "add_habit", !.pc = "users_select",
                                 !.user_id = user_id, !.text = habit_text,
                                 !.handler = handler]]
    /\ n_calls' = n_calls + 1
    /\ UNCHANGED <<tables, history, today>>

StartAddHabit(c, user_id, habit_text) ==
    /\ BeginAddHabit(c, user_id, habit_text, "none")
    /\ UNCHANGED passive

\* get_user_max_habits: SELECT max_habits FROM users WHERE user_id = $1
GetUserMaxHabitsSelect(c) ==
    /\ calls[c].op = "add_habit" /\ calls[c].pc = "users_select"
    /\ calls' = IF users[calls[c].user_id] # 0
                THEN [calls EXCEPT ![c].pc = "count",
                                   ![c].max_habits = users[calls[c].user_id]]
                ELSE Goto(c, "users_insert")
    /\ UNCHANGED <<others, users, habits, habit_seq, daily_logs, log_seq, today, n_calls,
                   raced, first_level, deleted_ok>>

\* Mutation: the INSERT without its ON CONFLICT clause.
InsertUserPlain(user_id) ==
    IF users[user_id] # 0
    THEN [raised |-> UniqueViolationError, users |-> users]
    ELSE [raised |-> "none",
          users |-> [users EXCEPT ![user_id] = DEFAULT_MAX_HABITS]]

\* INSERT INTO users (user_id, max_habits) VALUES ($1, DEFAULT_MAX_HABITS)
\* ON CONFLICT (user_id) DO NOTHING, under PRIMARY KEY (user_id): what is
\* raised, and the table afterwards.
InsertUserOnConflictDoNothing(user_id) ==
    IF users[user_id] # 0
    THEN [raised |-> "none", users |-> users]
    ELSE [raised |-> "none",
          users |-> [users EXCEPT ![user_id] = DEFAULT_MAX_HABITS]]

\* get_user_max_habits: the INSERT, then return DEFAULT_MAX_HABITS
GetUserMaxHabitsInsert(c) ==
    /\ calls[c].op = "add_habit" /\ calls[c].pc = "users_insert"
    /\ LET out == InsertUserOnConflictDoNothing(calls[c].user_id)
       IN  /\ users' = out.users
           /\ calls' = IF out.raised = "none"
                       THEN [calls EXCEPT ![c].pc = "count",
                                          ![c].max_habits = DEFAULT_MAX_HABITS]
                       ELSE Finish(c, out.raised, RaisedResponse(calls[c].op))
    /\ conflicted' = IF users[calls[c].user_id] # 0
                     THEN conflicted \cup {calls[c].user_id}
                     ELSE conflicted
    /\ UNCHANGED <<passive, habits, habit_seq, daily_logs, log_seq, today, n_calls,
                   raced, first_level, deleted_ok>>

\* get_habits_count and the quota test
AddHabitCount(c) ==
    /\ calls[c].op = "add_habit" /\ calls[c].pc = "count"
    /\ calls' = IF QuotaReached(get_habits_count(calls[c].user_id), calls[c].max_habits)
                THEN Finish(c, QuotaExceeded, QuotaExceededMsg(calls[c].max_habits))
                ELSE Goto(c, "insert")
    /\ UNCHANGED <<others, users, habits, habit_seq, daily_logs, log_seq, today, n_calls,
                   raced, first_level, deleted_ok>>

\* INSERT INTO habits (user_id, habit_text) VALUES ($1, $2)
AddHabitInsert(c) ==
    /\ calls[c].op = "add_habit" /\ calls[c].pc = "insert"
    /\ habit_seq' = habit_seq + 1
    /\ habits' = habits \cup {[id |-> habit_seq + 1, user_id |-> calls[c].user_id,
                               habit_text |-> calls[c].text]}
    /\ raced' = IF \E d \in Tasks \ {c} :
                       /\ calls[d].op = "add_habit" /\ calls[d].pc = "insert"
                       /\ calls[d].user_id = calls[c].user_id
                THEN raced \cup {calls[c].user_id}
                ELSE raced
    /\ calls' = Finish(c, Ok, "none")
    /\ UNCHANGED <<others, users, daily_logs, log_seq, today, n_calls, first_level, deleted_ok>>

(***************************************************************************)
(* update_habit_name(habit_id, user_id, new_name)                          *)
(***************************************************************************)
\* The call is made: its arguments are bound and its first statement is next.
BeginUpdateHabitName(c, habit_id, user_id, new_name) ==
    /\ CanStart(c)
    /\ calls' = [calls EXCEPT ![c] =
                    [Idle EXCEPT !.op = "update_habit_name", !.pc = "select",
                                 !.user_id = user_id, !.habit_id = habit_id,
                                 !.text = new_name]]
    /\ n_calls' = n_calls + 1
    /\ UNCHANGED <<tables, history, today>>

StartUpdateHabitName(c, habit_id, user_id, new_name) ==
    /\ BeginUpdateHabitName(c, habit_id, user_id, new_name)
    /\ UNCHANGED passive

UpdateHabitNameSelect(c) ==
    /\ calls[c].op = "update_habit_name" /\ calls[c].pc = "select"
    /\ calls' = IF SelectOwnedHabit(calls[c].habit_id, calls[c].user_id) = {}
                THEN Finish(c, NotFound, "none")
                ELSE Goto(c, "update")
    /\ UNCHANGED <<others, users, habits, habit_seq, daily_logs, log_seq, today, n_calls,
                   raced, first_level, deleted_ok>>

\* UPDATE habits SET habit_text = $1 WHERE id = $2 AND user_id = $3
UpdateHabitNameUpdate(c) ==
    /\ calls[c].op = "update_habit_name" /\ calls[c].pc = "update"
    /\ habits' = {IF h.id = calls[c].habit_id /\ h.user_id = calls[c].user_id
                  THEN [h EXCEPT !.habit_text = Strip(calls[c].text)]
                  ELSE h : h \in habits}
    /\ calls' = Finish(c, Ok, "none")
    /\ UNCHANGED <<others, users, habit_seq, daily_logs, log_seq, today, n_calls,
                   raced, first_level, deleted_ok>>

(***************************************************************************)
(* delete_habit(habit_id, user_id): the ownership SELECT, then two DELETE  *)
(* statements, each committed on its own.                                  *)
(***************************************************************************)
StartDeleteHabit(c, habit_id, user_id) ==
    /\ CanStart(c)
    /\ calls' = [calls EXCEPT ![c] =
                    [Idle EXCEPT !.op = "delete_habit", !.pc = "select",
                                 !.user_id = user_id, !.habit_id = habit_id]]
    /\ n_calls' = n_calls + 1
    /\ UNCHANGED <<others, users, habits, habit_seq, daily_logs, log_seq, today,
                   raced, first_level, deleted_ok>>

DeleteHabitSelect(c) ==
    /\ calls[c].op = "delete_habit" /\ calls[c].pc = "select"
    /\ calls' = IF SelectOwnedHabit(calls[c].habit_id, calls[c].user_id) = {}
                THEN Finish(c, NotFound, "none")
                ELSE Goto(c, "delete_logs")
    /\ UNCHANGED <<others, users, habits, habit_seq, daily_logs, log_seq, today, n_calls,
                   raced, first_level, deleted_ok>>

\* DELETE FROM daily_logs WHERE habit_id = $1
DeleteHabitLogs(c) ==
    /\ calls[c].op = "delete_habit" /\ calls[c].pc = "delete_logs"
    /\ daily_logs' = {r \in daily_logs : r.habit_id # calls[c].habit_id}
    /\ calls' = [calls EXCEPT
                    ![c].pc = "delete_habit",
                    ![c].logs_deleted =
                        Cardinality({r \in daily_logs : r.habit_id = calls[c].habit_id})]
    /\ UNCHANGED <<others, users, habits, habit_seq, log_seq, today, n_calls,
                   raced, first_level, deleted_ok>>

\* DELETE FROM habits WHERE id = $1 AND user_id = $2
DeleteHabitRow(c) ==
    /\ calls[c].op = "delete_habit" /\ calls[c].pc = "delete_habit"
    /\ habits' = habits \ SelectOwnedHabit(calls[c].habit_id, calls[c].user_id)
    /\ daily_logs' = OnDeleteCascade(calls[c].habit_id,
                                     SelectOwnedHabit(calls[c].habit_id, calls[c].user_id))
    /\ deleted_ok' = deleted_ok \cup {<<calls[c].habit_id, calls[c].user_id>>}
    /\ calls' = Finish(c, Ok, "none")
    /\ UNCHANGED <<others, users, habit_seq, log_seq, today, n_calls, raced, first_level>>

(***************************************************************************)
(* handle_habit_callback(user, "habit_<level>_<habit_id>"): the level      *)
(* buttons.  It calls save_daily_log(user_id, habit_id, efficiency_level)  *)
(* and answers by its outcome.                                             *)
(***************************************************************************)
StartHabitCallback(c, user_id, habit_id, efficiency_level) ==
    /\ CanStart(c)
    /\ calls' = [calls EXCEPT ![c] =
                    [Idle EXCEPT !.op = "handle_habit_callback", !.pc = "select",
                                 !.user_id = user_id, !.habit_id = habit_id,
                                 !.level = efficiency_level,
                                 !.log_date = today]]       \* log_date = date.today()
    /\ n_calls' = n_calls + 1
    /\ UNCHANGED <<others, users, habits, habit_seq, daily_logs, log_seq, today,
                   raced, first_level, deleted_ok>>

\* save_daily_log: SELECT id FROM daily_logs WHERE habit_id = $1 AND log_date = $2
SaveDailyLogSelect(c) ==
    /\ calls[c].op = "handle_habit_callback" /\ calls[c].pc = "select"
    /\ calls' = IF SelectExistingLog(calls[c].habit_id, calls[c].log_date) # {}
                THEN Finish(c, AlreadyExisted, HabitCallbackResponse(AlreadyExisted))
                ELSE Goto(c, "insert")
    /\ UNCHANGED <<others, users, habits, habit_seq, daily_logs, log_seq, today, n_calls,
                   raced, first_level, deleted_ok>>

\* INSERT INTO daily_logs (habit_id, log_date, efficiency_level) VALUES ($1, $2, $3)
\* under the constraints of the table: what is raised, and the rows afterwards.
\* (The sequence value a refused INSERT consumes is never read, and is not
\* modelled.)
InsertDailyLog(habit_id, log_date, efficiency_level) ==
    IF ~ UniqueHabitDate(habit_id, log_date)
    THEN [raised |-> UniqueViolationError, rows |-> daily_logs]
    ELSE IF ~ ReferencesHabit(habit_id)
    THEN [raised |-> ForeignKeyViolationError, rows |-> daily_logs]
    ELSE [raised |-> "none",
          rows |-> daily_logs \cup
                    {[id |-> log_seq + 1, habit_id |-> habit_id,
                      log_date |-> log_date, efficiency_level |-> efficiency_level]}]

SaveDailyLogInsert(c) ==
    /\ calls[c].op = "handle_habit_callback" /\ calls[c].pc = "insert"
    /\ LET out == InsertDailyLog(calls[c].habit_id, calls[c].log_date, calls[c].level)
       IN  /\ daily_logs' = out.rows
           /\ log_seq' = IF out.raised = "none" THEN log_seq + 1 ELSE log_seq
           /\ first_level' =
                 IF /\ out.raised = "none"
                    /\ ~ \E f \in first_level :
                            f[1] = calls[c].habit_id /\ f[2] = calls[c].log_date
                 THEN first_level \cup
                        {<<calls[c].habit_id, calls[c].log_date, calls[c].level>>}
                 ELSE first_level
           /\ calls' = IF out.raised = "none"
                       THEN Finish(c, Created, HabitCallbackResponse(Created))
                       ELSE Finish(c, out.raised, HabitCallbackResponse(out.raised))
    /\ UNCHANGED <<others, users, habits, habit_seq, today, n_calls, raced, deleted_ok>>

(***************************************************************************)
(* handle_mark_select_habit(user, "mark_select_<habit_id>")                *)
(***************************************************************************)
StartMarkSelect(c, user_id, habit_id) ==
    /\ CanStart(c)
    /\ calls' = [calls EXCEPT ![c] =
                    [Idle EXCEPT !.op = "handle_mark_select_habit", !.pc = "get_habits",
                                 !.user_id = user_id, !.habit_id = habit_id]]
    /\ n_calls' = n_calls + 1
    /\ UNCHANGED <<others, users, habits, habit_seq, daily_logs, log_seq, today,
                   raced, first_level, deleted_ok>>

\* habits = await get_habits(user_id); the ownership test; today = date.today()
MarkSelectGetHabits(c) ==
    /\ calls[c].op = "handle_mark_select_habit" /\ calls[c].pc = "get_habits"
    /\ LET list == get_habits(calls[c].user_id)
           habit_ids == {list[i][1] : i \in 1..Len(list)}
       IN  calls' = IF calls[c].habit_id \notin habit_ids
                    THEN Finish(c, Ok, UnavailableMsg)
                    ELSE [calls EXCEPT ![c].pc = "has_daily_log",
                                       ![c].log_date = today]
    /\ UNCHANGED <<others, users, habits, habit_seq, daily_logs, log_seq, today, n_calls,
                   raced, first_level, deleted_ok>>

\* if await has_daily_log(habit_id, today): "already marked", else the level buttons
MarkSelectHasDailyLog(c) ==
    /\ calls[c].op = "handle_mark_select_habit" /\ calls[c].pc = "has_daily_log"
    /\ calls' = IF has_daily_log(calls[c].habit_id, calls[c].log_date)
                THEN Finish(c, Ok, AlreadyMarkedMsg)
                ELSE Finish(c, Ok, ChooseLevelMsg)
    /\ UNCHANGED <<others, users, habits, habit_seq, daily_logs, log_seq, today, n_calls,
                   raced, first_level, deleted_ok>>

(***************************************************************************)
(* The environment: a statement fails on connectivity loss, the day       *)
(* changes.                                                                *)
(***************************************************************************)
\* The statement the call is about to run raises instead of executing.
StorageFailure(c) ==
    /\ calls[c].pc \notin {"idle", "done"}
    /\ calls' = Finish(c, StorageError, RaisedResponse(calls[c].op))
    /\ UNCHANGED <<others, users, habits, habit_seq, daily_logs, log_seq, today, n_calls,
                   raced, first_level, deleted_ok>>

Tick ==
    /\ today < MaxDay
    /\ today' = today + 1
    /\ UNCHANGED <<others, users, habits, habit_seq, daily_logs, log_seq, calls, n_calls,
                   raced, first_level, deleted_ok>>

Next ==
    \/ \E c \in Tasks, u \in Users, t \in AddTexts : StartAddHabit(c, u, t)
    \/ \E c \in Tasks : GetUserMaxHabitsSelect(c)
    \/ \E c \in Tasks : GetUserMaxHabitsInsert(c)
    \/ \E c \in Tasks : AddHabitCount(c)
    \/ \E c \in Tasks : AddHabitInsert(c)
    \/ \E c \in Tasks, h \in HabitIds, u \in Users, t \in NewNames :
            StartUpdateHabitName(c, h, u, t)
    \/ \E c \in Tasks : UpdateHabitNameSelect(c)
    \/ \E c \in Tasks : UpdateHabitNameUpdate(c)
    \/ \E c \in Tasks, h \in HabitIds, u \in Users : StartDeleteHabit(c, h, u)
    \/ \E c \in Tasks : DeleteHabitSelect(c)
    \/ \E c \in Tasks : DeleteHabitLogs(c)
    \/ \E c \in Tasks : DeleteHabitRow(c)
    \/ \E c \in Tasks, u \in Users, h \in HabitIds, l \in ButtonLevels :
            StartHabitCallback(c, u, h, l)
    \/ \E c \in Tasks : SaveDailyLogSelect(c)
    \/ \E c \in Tasks : SaveDailyLogInsert(c)
    \/ \E c \in Tasks, u \in Users, h \in HabitIds : StartMarkSelect(c, u, h)
    \/ \E c \in Tasks : MarkSelectGetHabits(c)
    \/ \E c \in Tasks : MarkSelectHasDailyLog(c)
    \/ \E c \in Tasks : StorageFailure(c)
    \/ Tick

Spec == Init /\ [][Next]_vars

(***************************************************************************)
(* get_daily_logs_for_user(user_id): the JOIN of daily_logs and habits,    *)
(* scanned in log_date order, reduced to the best level per date.          *)
(***************************************************************************)

\* Stored efficiency_level texts of current and earlier revisions: the keys of
\* level_rank.  "Horosho" stands for "Хорошо", "Da" for "Да", "Minimum" for
\* "Минимум".
LevelHorosho == <<"Horosho">>
LevelDa == <<"Da">>
LevelMinimum == <<"Minimum">>
LevelCalGood == <<"good">>
LevelCalMinimum == <<"minimum">>
LevelCalNoData == <<"no-data">>

\* Mutation: the old spelling "Da" left out of level_rank, so that it takes
\* the default rank while LEVEL_TO_CALENDAR still maps it to "good".
LevelRankWithoutDa(text) ==
    CASE text = LevelGood -> 3
      [] text = LevelHorosho -> 3
      [] text = LevelMin -> 2
      [] text = LevelMinimum -> 2
      [] text = LevelNo -> 1
      [] text = LevelCalGood -> 3
      [] text = LevelCalMinimum -> 2
      [] text = LevelCalNoData -> 1
      [] OTHER -> 1

\* level_rank.get(text, 1)
level_rank(text) ==
    CASE text = LevelGood -> 3
      [] text = LevelHorosho -> 3
      [] text = LevelDa -> 3
      [] text = LevelMin -> 2
      [] text = LevelMinimum -> 2
      [] text = LevelNo -> 1
      [] text = LevelCalGood -> 3
      [] text = LevelCalMinimum -> 2
      [] text = LevelCalNoData -> 1
      [] OTHER -> 1

\* level_rank.get((eff or "").strip(), 1)
RankOf(eff) == level_rank(Strip(eff))

\* Python's order on the key strings: character by character.
KeyLess(k1, k2) == k1[1] < k2[1] \/ (k1[1] = k2[1] /\ k1[2] < k2[2])

\* SELECT dl.log_date, dl.efficiency_level FROM daily_logs dl
\* JOIN habits h ON h.id = dl.habit_id WHERE h.user_id = $1
JoinedLogs(user_id) ==
    {r \in daily_logs : \E h \in habits : h.id = r.habit_id /\ h.user_id = user_id}

\* ORDER BY dl.log_date: every order of the joined rows with ascending
\* log_date; the order among rows of one date is the server's choice.
ScanOrders(rows) ==
    {s \in [1..Cardinality(rows) -> rows] :
        /\ \A i, j \in 1..Cardinality(rows) : i # j => s[i] # s[j]
        /\ \A i, j \in 1..Cardinality(rows) : i < j => s[i].log_date <= s[j].log_date}

\* Mutation: the comparison of the loop reversed (the worst level wins).
MergeRowKeepsWorst(by_date, r) ==
    LET key == DateKey(r.log_date)
        held == {e \in by_date : e[1] = key}
    IN  IF held = {} \/ \E e \in held : RankOf(r.efficiency_level) < RankOf(e[2])
        THEN (by_date \ held) \cup {<<key, r.efficiency_level>>}
        ELSE by_date

\* Mutation: the comparison of the loop made non-strict (on equal rank the
\* level scanned last wins).
MergeRowKeepsLast(by_date, r) ==
    LET key == DateKey(r.log_date)
        held == {e \in by_date : e[1] = key}
    IN  IF held = {} \/ \E e \in held : RankOf(r.efficiency_level) >= RankOf(e[2])
        THEN (by_date \ held) \cup {<<key, r.efficiency_level>>}
        ELSE by_date

\* One turn of the loop over rows: by_date is the dict so far, as a set of
\* <<key, eff>> with one entry per key.
MergeRow(by_date, r) ==
    LET key == DateKey(r.log_date)
        held == {e \in by_date : e[1] = key}
    IN  IF held = {} \/ \E e \in held : RankOf(r.efficiency_level) > RankOf(e[2])
        THEN (by_date \ held) \cup {<<key, r.efficiency_level>>}
        ELSE by_date

RECURSIVE MergeRows(_, _)
MergeRows(by_date, rows) ==
    IF rows = <<>> THEN by_date
    ELSE MergeRows(MergeRow(by_date, Head(rows)), Tail(rows))

\* sorted(by_date.items()): ascending by key
RECURSIVE SortedItems(_)
SortedItems(items) ==
    IF items = {} THEN <<>>
    ELSE LET least == CHOOSE e \in items :
                        \A q \in items : q = e \/ KeyLess(e[1], q[1])
         IN  <<least>> \o SortedItems(items \ {least})

\* The list get_daily_logs_for_user returns when the rows arrive as `rows`.
get_daily_logs_for_user(rows) == SortedItems(MergeRows({}, rows))

QueryLogsForUser(user_id, rows) ==
    /\ agg' = [user_id |-> user_id, rows |-> rows,
               out |-> get_daily_logs_for_user(rows)]
    /\ UNCHANGED <<tables, history, today, calls, n_calls, reminder, cal, chat, db, racers>>

(***************************************************************************)
(* The aggregation over stored tables: SpecAgg starts from any daily_logs  *)
(* table of at most MaxAggRows rows over the habits below, written with    *)
(* any spelling of AggLevels, and runs the query for any user.             *)
(***************************************************************************)
MaxAggRows == 3

AggHabits ==
    { [id |-> 1, user_id |-> 1, habit_text |-> <<"a", "b">>],
      [id |-> 2, user_id |-> 1, habit_text |-> <<"c", "d">>],
      [id |-> 3, user_id |-> 2, habit_text |-> <<"a", "b">>] }

AggDates == {9, 10}

\* Spellings of all three ranks, a padded one, an unknown one and a blank one.
AggLevels ==
    { LevelGood, LevelMin, LevelNo, LevelCalMinimum,
      <<" ", "good", " ">>, <<"?">>, <<" ">> }

AggPairs == {1, 2, 3} \X AggDates

\* The daily_logs table holding, for each pair, the row of level f[pair].
AggTable(f) ==
    { [id |-> 10 * p[1] + (p[2] - 8), habit_id |-> p[1], log_date |-> p[2],
       efficiency_level |-> f[p]] : p \in {q \in AggPairs : f[q] # <<>>} }

InitAgg ==
    /\ users = [u \in Users |-> DEFAULT_MAX_HABITS]
    /\ habits = AggHabits /\ habit_seq = 3
    /\ \E f \in [AggPairs -> AggLevels \cup {<<>>}] :
          /\ Cardinality({p \in AggPairs : f[p] # <<>>}) <= MaxAggRows
          /\ daily_logs = AggTable(f)
    /\ log_seq = 32
    /\ first_level = {<<r.habit_id, r.log_date, r.efficiency_level>> : r \in daily_logs}
    /\ today = 10
    /\ calls = [c \in Tasks |-> Idle]
    /\ n_calls = 0
    /\ raced = {}
    /\ deleted_ok = {}
    /\ conflicted = {}
    /\ agg = NoQuery
    /\ reminder = NoRun
    /\ cal = NoRequest
    /\ state = [u \in Users |-> NoState]
    /\ data = [u \in Users |-> 0]
    /\ answer = NoAnswer
    /\ db = NoDb
    /\ racers = NoRacers

NextAgg ==
    \E u \in Users : \E rows \in ScanOrders(JoinedLogs(u)) : QueryLogsForUser(u, rows)

SpecAgg == InitAgg /\ [][NextAgg]_vars

(***************************************************************************)
(* get_unmarked_habits_for_reminder(log_date) and send_daily_reminder.     *)
(***************************************************************************)

\* Mutation: the join condition without the date (AND dl.log_date = $1 dropped).
LeftJoinAnyDate(log_date) ==
    UNION { LET matched == {r \in daily_logs : r.habit_id = h.id}
            IN  IF matched = {} THEN {[h |-> h, dl_id |-> 0]}
                ELSE {[h |-> h, dl_id |-> r.id] : r \in matched} : h \in habits }

\* FROM habits h LEFT JOIN daily_logs dl ON dl.habit_id = h.id AND dl.log_date = $1:
\* every habit with each of its logs of the date, or once with dl.* NULL
\* (dl_id 0) when it has none.
LeftJoinOnDate(log_date) ==
    UNION { LET matched == {r \in daily_logs :
                               r.habit_id = h.id /\ r.log_date = log_date}
            IN  IF matched = {} THEN {[h |-> h, dl_id |-> 0]}
                ELSE {[h |-> h, dl_id |-> r.id] : r \in matched} : h \in habits }

\* ORDER BY h.user_id, h.id
RECURSIVE OrderByUserId(_)
OrderByUserId(rows) ==
    IF rows = {} THEN <<>>
    ELSE LET first == CHOOSE r \in rows : \A q \in rows :
                          \/ r.user_id < q.user_id
                          \/ (r.user_id = q.user_id /\ r.id <= q.id)
         IN  <<first>> \o OrderByUserId(rows \ {first})

\* [(user_id, habit_id, habit_text), ...] of the joined rows WHERE dl.id IS NULL
get_unmarked_habits_for_reminder(log_date) ==
    LET rows == OrderByUserId({j.h : j \in {x \in LeftJoinOnDate(log_date) : x.dl_id = 0}})
    IN  [k \in 1..Len(rows) |-> <<rows[k].user_id, rows[k].id, rows[k].habit_text>>]

\* The scheduler fires the job: today = date.today()
ReminderStart ==
    /\ reminder.pc = "idle"
    /\ reminder' = [reminder EXCEPT !.pc = "query", !.today = today]
    /\ UNCHANGED <<tables, history, today, calls, n_calls, agg, cal, chat, db, racers>>

\* rows = await get_unmarked_habits_for_reminder(today); if not rows: return
ReminderQuery ==
    /\ reminder.pc = "query"
    /\ LET rows == get_unmarked_habits_for_reminder(reminder.today)
       IN  reminder' = [reminder EXCEPT !.queried = "ok", !.rows = rows, !.i = 1,
                                        !.pc = IF rows = <<>> THEN "done" ELSE "loop"]
    /\ UNCHANGED <<tables, history, today, calls, n_calls, agg, cal, chat, db, racers>>

\* The query raises: the outer except logs it and the run ends.
ReminderQueryFails ==
    /\ reminder.pc = "query"
    /\ reminder' = [reminder EXCEPT !.queried = "failed", !.pc = "done"]
    /\ UNCHANGED <<tables, history, today, calls, n_calls, agg, cal, chat, db, racers>>

\* Mutation: the loop without its inner try/except (a failed send ends the run).
AfterSendAborts(sent, i, n) == IF sent /\ i < n THEN "loop" ELSE "done"

\* Where the run stands after the send for row i of n returned or raised: the
\* inner except logs a failure and the loop goes on.
AfterSend(sent, i, n) == IF i < n THEN "loop" ELSE "done"

\* One turn of the loop: await bot.send_message(chat_id=user_id, ...) for row i;
\* it returns (sent) or raises.
ReminderSend(sent) ==
    /\ reminder.pc = "loop"
    /\ LET row == reminder.rows[reminder.i]
       IN  reminder' = [reminder EXCEPT
                           !.attempts = Append(@, <<row[1], row[2], sent>>),
                           !.i = @ + 1,
                           !.pc = AfterSend(sent, reminder.i, Len(reminder.rows))]
    /\ UNCHANGED <<tables, history, today, calls, n_calls, agg, cal, chat, db, racers>>

\* The tables the job may find: the three habits of AggHabits, each with or
\* without a log of yesterday and of today.
ReminderPairs == {1, 2, 3} \X {MaxDay - 1, MaxDay}

InitReminder ==
    /\ users = [u \in Users |-> DEFAULT_MAX_HABITS]
    /\ habits = AggHabits /\ habit_seq = 3
    /\ \E marked \in SUBSET ReminderPairs :
          daily_logs = { [id |-> 10 * p[1] + p[2], habit_id |-> p[1], log_date |-> p[2],
                          efficiency_level |-> LevelMin] : p \in marked }
    /\ log_seq = 40
    /\ first_level = {<<r.habit_id, r.log_date, r.efficiency_level>> : r \in daily_logs}
    /\ today = MaxDay
    /\ calls = [c \in Tasks |-> Idle]
    /\ n_calls = 0
    /\ raced = {}
    /\ deleted_ok = {}
    /\ conflicted = {}
    /\ agg = NoQuery
    /\ reminder = NoRun
    /\ cal = NoRequest
    /\ state = [u \in Users |-> NoState]
    /\ data = [u \in Users |-> 0]
    /\ answer = NoAnswer
    /\ db = NoDb
    /\ racers = NoRacers

NextReminder ==
    \/ ReminderStart
    \/ ReminderQuery
    \/ ReminderQueryFails
    \/ \E sent \in BOOLEAN : ReminderSend(sent)

SpecReminder == InitReminder /\ [][NextReminder]_vars

\* The scheduler fires the job, and every await of the run returns or raises.
FairSpecReminder == SpecReminder /\ WF_vars(NextReminder)

(***************************************************************************)
(* GET /api/users/{user_id}/calendar (api.py): the logs of one habit or the *)
(* aggregated logs of the user, mapped to calendar values.                 *)
(***************************************************************************)

\* Python's None, where a text is expected.
PyNone == <<"None">>

\* (efficiency_level or "")
OrEmpty(eff) == IF eff = PyNone \/ eff = <<>> THEN <<>> ELSE eff

\* Mutation: the table looked up without a default (LEVEL_TO_CALENDAR[val]
\* would raise KeyError; here the request yields the marker "KeyError").
LevelToCalendarNoDefault(val) ==
    CASE val \in {LevelGood, LevelHorosho, LevelDa, LevelCalGood} -> "good"
      [] val \in {LevelMin, LevelMinimum, LevelCalMinimum} -> "minimum"
      [] val \in {LevelNo, LevelCalNoData} -> "no-data"
      [] OTHER -> "KeyError"

\* LEVEL_TO_CALENDAR.get(val, "no-data")
LEVEL_TO_CALENDAR(val) ==
    CASE val = LevelGood -> "good"
      [] val = LevelHorosho -> "good"
      [] val = LevelDa -> "good"
      [] val = LevelMin -> "minimum"
      [] val = LevelMinimum -> "minimum"
      [] val = LevelNo -> "no-data"
      [] val = LevelCalGood -> "good"
      [] val = LevelCalMinimum -> "minimum"
      [] val = LevelCalNoData -> "no-data"
      [] OTHER -> "no-data"

\* str(log_date)[:10]
Prefix10(key) == SubSeq(key, 1, IF Len(key) < 10 THEN Len(key) ELSE 10)

\* The loop of get_calendar over logs: result[key] = value, a later entry of a
\* key replacing an earlier one.  The dict is a set of <<key, value>>.
RECURSIVE CalendarResult(_, _)
CalendarResult(result, logs) ==
    IF logs = <<>> THEN result
    ELSE LET key == Prefix10(Head(logs)[1])
             val == Strip(OrEmpty(Head(logs)[2]))
         IN  CalendarResult({e \in result : e[1] # key}
                                \cup {<<key, LEVEL_TO_CALENDAR(val)>>},
                            Tail(logs))

\* Mutation: the ownership test of get_calendar dropped.
AnyHabitId(list, habit_id) == TRUE

\* any(h[0] == habit_id for h in habits)
AnyHabitHasId(list, habit_id) == \E i \in DOMAIN list : list[i][1] = habit_id

\* Mutation: the endpoint looks the user's quota up first, and
\* get_user_max_habits creates the row of a user it has not seen.
UsersAfterQuotaLookup(user_id) == InsertUserOnConflictDoNothing(user_id).users

\* The table users after the SELECT statements of a read for user_id.
UsersAfterSelect(user_id) == users

\* get_calendar(user_id, habit_id): the ownership test on get_habits(user_id),
\* then get_daily_logs_for_habit(habit_id)
GetCalendarForHabit(user_id, habit_id) ==
    /\ cal' = IF ~ AnyHabitHasId(get_habits(user_id), habit_id)
              THEN [endpoint |-> "calendar",
                    user_id |-> user_id, habit_id |-> habit_id, by_habit |-> TRUE,
                    status |-> 404, body |-> {}]
              ELSE [endpoint |-> "calendar",
                    user_id |-> user_id, habit_id |-> habit_id, by_habit |-> TRUE,
                    status |-> 200,
                    body |-> CalendarResult({}, get_daily_logs_for_habit(habit_id))]
    /\ users' = UsersAfterSelect(user_id)
    /\ UNCHANGED <<habits, habit_seq, daily_logs, log_seq, history, today, calls, n_calls,
                   agg, reminder, chat, db, racers>>

\* get_calendar(user_id): get_daily_logs_for_user(user_id), the rows arriving
\* as `rows`
GetCalendarForUser(user_id, rows) ==
    /\ cal' = [endpoint |-> "calendar",
               user_id |-> user_id, habit_id |-> 0, by_habit |-> FALSE, status |-> 200,
               body |-> CalendarResult({}, get_daily_logs_for_user(rows))]
    /\ users' = UsersAfterSelect(user_id)
    /\ UNCHANGED <<habits, habit_seq, daily_logs, log_seq, history, today, calls, n_calls,
                   agg, reminder, chat, db, racers>>

\* A storage call of get_calendar raises: HTTPException(status_code=500)
GetCalendarFails(user_id, habit_id, by_habit) ==
    /\ cal' = [endpoint |-> "calendar",
               user_id |-> user_id, habit_id |-> habit_id, by_habit |-> by_habit,
               status |-> 500, body |-> {}]
    /\ UNCHANGED <<tables, history, today, calls, n_calls, agg, reminder, chat, db, racers>>

(***************************************************************************)
(* SpecCalendar starts from any daily_logs table of at most MaxCalRows rows *)
(* over CalPairs, written with any spelling of CalLevels, and serves any   *)
(* calendar request.                                                       *)
(***************************************************************************)
MaxCalRows == 2

\* Habits 1 and 2 of user 1 on one date, habit 1 on a second, habit 3 of user 2.
CalPairs == {<<1, 9>>, <<2, 9>>, <<1, 10>>, <<3, 9>>}

\* Every key of the two tables, a padded one, an unknown one, a blank one and
\* the empty text.
CalLevels ==
    { LevelGood, LevelHorosho, LevelDa, LevelMin, LevelMinimum, LevelNo,
      LevelCalGood, LevelCalMinimum, LevelCalNoData,
      <<" ", "good", " ">>, <<"?">>, <<" ">>, <<>> }

\* habit ids a request may name: the three habits and one that does not exist
CalHabitIds == 1..4

InitCalendar ==
    /\ users = [u \in Users |-> DEFAULT_MAX_HABITS]
    /\ habits = AggHabits /\ habit_seq = 3
    /\ \E filled \in SUBSET CalPairs :
          /\ Cardinality(filled) <= MaxCalRows
          /\ \E f \in [filled -> CalLevels] :
                daily_logs = { [id |-> 10 * p[1] + (p[2] - 8), habit_id |-> p[1],
                                log_date |-> p[2], efficiency_level |-> f[p]] :
                               p \in filled }
    /\ log_seq = 32
    /\ first_level = {<<r.habit_id, r.log_date, r.efficiency_level>> : r \in daily_logs}
    /\ today = 10
    /\ calls = [c \in Tasks |-> Idle]
    /\ n_calls = 0
    /\ raced = {}
    /\ deleted_ok = {}
    /\ conflicted = {}
    /\ agg = NoQuery
    /\ reminder = NoRun
    /\ cal = NoRequest
    /\ state = [u \in Users |-> NoState]
    /\ data = [u \in Users |-> 0]
    /\ answer = NoAnswer
    /\ db = NoDb
    /\ racers = NoRacers

NextCalendar ==
    \/ \E u \in Users, h \in CalHabitIds : GetCalendarForHabit(u, h)
    \/ \E u \in Users : \E rows \in ScanOrders(JoinedLogs(u)) : GetCalendarForUser(u, rows)
    \/ \E u \in Users, h \in CalHabitIds : GetCalendarFails(u, h, TRUE)
    \/ \E u \in Users : GetCalendarFails(u, 0, FALSE)

SpecCalendar == InitCalendar /\ [][NextCalendar]_vars

(***************************************************************************)
(* The web API as a whole: get_calendar, get_user_habit and health, asked  *)
(* about users with and without a row in users, with and without habits.   *)
(***************************************************************************)
\* get_user_habit(user_id): get_habits(user_id), 404 when the list is empty
get_user_habit(user_id) ==
    /\ cal' = LET list == get_habits(user_id) IN
              [endpoint |-> "habit", user_id |-> user_id, habit_id |-> 0,
               by_habit |-> FALSE,
               status |-> IF list = <<>> THEN 404 ELSE 200,
               body |-> {list[i] : i \in DOMAIN list}]
    /\ users' = UsersAfterSelect(user_id)
    /\ UNCHANGED <<habits, habit_seq, daily_logs, log_seq, history, today, calls, n_calls,
                   agg, reminder, chat, db, racers>>

\* health(): {"status": "ok"}
health ==
    /\ cal' = [endpoint |-> "health", user_id |-> 0, habit_id |-> 0, by_habit |-> FALSE,
               status |-> 200, body |-> {}]
    /\ UNCHANGED <<tables, history, today, calls, n_calls, agg, reminder, chat, db, racers>>

\* Any set of the three habits; a row in users for every owner and for any
\* other user or none; at most MaxCalRows logs of the habits there are.
InitWeb ==
    /\ \E hs \in SUBSET AggHabits, known \in SUBSET Users :
          /\ {h.user_id : h \in hs} \subseteq known
          /\ habits = hs
          /\ users = [u \in Users |-> IF u \in known THEN DEFAULT_MAX_HABITS ELSE 0]
    /\ habit_seq = 3
    /\ \E filled \in SUBSET CalPairs :
          /\ Cardinality(filled) <= MaxCalRows
          /\ \A p \in filled : \E h \in habits : h.id = p[1]
          /\ daily_logs = { [id |-> 10 * p[1] + (p[2] - 8), habit_id |-> p[1],
                             log_date |-> p[2], efficiency_level |-> LevelMin] :
                            p \in filled }
    /\ log_seq = 32
    /\ first_level = {<<r.habit_id, r.log_date, r.efficiency_level>> : r \in daily_logs}
    /\ today = 10
    /\ calls = [c \in Tasks |-> Idle]
    /\ n_calls = 0
    /\ raced = {}
    /\ deleted_ok = {}
    /\ conflicted = {}
    /\ agg = NoQuery
    /\ reminder = NoRun
    /\ cal = NoRequest
    /\ state = [u \in Users |-> NoState]
    /\ data = [u \in Users |-> 0]
    /\ answer = NoAnswer
    /\ db = NoDb
    /\ racers = NoRacers

NextWeb ==
    \/ \E u \in Users, h \in CalHabitIds : GetCalendarForHabit(u, h)
    \/ \E u \in Users : \E rows \in ScanOrders(JoinedLogs(u)) : GetCalendarForUser(u, rows)
    \/ \E u \in Users, h \in CalHabitIds : GetCalendarFails(u, h, TRUE)
    \/ \E u \in Users : GetCalendarFails(u, 0, FALSE)
    \/ \E u \in Users : get_user_habit(u)
    \/ health

SpecWeb == InitWeb /\ [][NextWeb]_vars

(***************************************************************************)
(* The conversations of main.py: the FSM of adding a habit (AddingHabit)   *)
(* and of renaming one (EditingHabit), and /cancel.  The dispatcher tries  *)
(* handlers in registration order: /cancel (line 301) comes before the     *)
(* state handlers (lines 359, 547), which take every other message of a    *)
(* user in their state.                                                    *)
(***************************************************************************)
WaitingForName == "AddingHabit:waiting_for_name"
WaitingForNewName == "EditingHabit:waiting_for_new_name"

PromptMsg == "Napishite privychku"                          \* ONBOARDING_PROMPT
ValidationMsg == "Nazvanie dolzhno byt ne menshe 2 simvolov"
AddedMsg == "Privychka dobavlena"
CancelledMsg == "Otmeneno."
EditPromptMsg == "Vvedite novoe nazvanie"
SessionExpiredMsg == "Sessiya istekla"
RenamedMsg == "Nazvanie obnovleno"
NotFoundMsg == "Privychka ne najdena ili ne prinadlezhit tebe"

\* Texts of incoming messages: no text at all (a photo), a padded one-character
\* text and a padded two-character text.
FlowTexts == { PyNone, <<" ", "a", " ">>, <<" ", "a", "b", " ">> }

\* Commands and the texts the buttons of the main menu send.  A text is a
\* sequence of tokens; every text of 2 or more characters is written with 2 or
\* more tokens, so that its length is short only when the text is.
MarkProgressPrefix == "v Otmetit progress"
MarkProgressButton == <<MarkProgressPrefix, " za 4 noyabrya">>
AddHabitButtons == { <<"+", " ", "Dobavit privychku">>, <<"Dobavit", " ", "privychku">> }
SettingsButtons == { <<"*", " ", "Nastrojki">>, <<"Nastroj", "ki">> }
CmdStart == <<"/start">>
CmdCancel == <<"/cancel">>
CmdCalendar == <<"/calendar">>
CmdSetHabit == <<"/sethabit", " ", "c", "d", " ">>
CmdSetHabitShort == <<"/sethabit", " ", "c", " ">>
CmdSetHabitBare == <<"/sethabit", " ">>

\* What a user of the menu sends: each command, and each button as the
\* keyboard of get_bot_menu and the older one write it.
MenuTexts ==
    { MarkProgressButton, CmdStart, CmdCancel, CmdCalendar,
      CmdSetHabit, CmdSetHabitShort, CmdSetHabitBare,
      <<"+", " ", "Dobavit privychku">>, <<"*", " ", "Nastrojki">> }

\* Mutation: the text taken without trimming.
MessageTextUntrimmed(text) == OrEmpty(text)

\* (message.text or "").strip() if message.text else ""
MessageText(text) == Strip(OrEmpty(text))

\* MessageText of each text the conversations are given.
StrippedText == [text \in FlowTexts \cup MenuTexts |-> MessageText(text)]

\* Mutation: the length test of the handlers dropped.
TooShortNever(habit_text) == FALSE

\* if not habit_text or len(habit_text) < 2
TooShort(habit_text) == habit_text = <<>> \/ Len(habit_text) < 2

\* Mutation: state.set_state(None) in place of state.clear() (the data stay).
DataKept(user_id) == data

\* state.clear(): the state becomes None and the data empty.
StateCleared(user_id) == [state EXCEPT ![user_id] = NoState]
DataCleared(user_id) == [data EXCEPT ![user_id] = 0]

\* The storage call of slot c has returned to its handler, which has yet to go on.
Returned(c, op) ==
    calls[c].op = op /\ calls[c].pc = "done" /\ calls[c].result \notin Exceptions

\* The result in slot c is still to be read by the handler that made the call.
Awaited(c) ==
    \E op \in {"add_habit", "update_habit_name", "delete_habit"} : Returned(c, op)

\* cmd_menu_add_habit, handle_settings_add, handle_onboarding_add_habit:
\* state.set_state(AddingHabit.waiting_for_name), then the prompt
cmd_menu_add_habit(user_id) ==
    /\ state' = [state EXCEPT ![user_id] = WaitingForName]
    /\ answer' = [user_id |-> user_id, text |-> PromptMsg]
    /\ UNCHANGED <<tables, history, today, calls, n_calls, agg, reminder, cal, data, db, racers>>

\* process_add_habit_name up to its first await: the validation message, or the
\* call of add_habit(user_id, habit_text)
process_add_habit_name(c, user_id, text) ==
    /\ state[user_id] = WaitingForName
    /\ LET habit_text == StrippedText[text] IN
       IF TooShort(habit_text)
       THEN /\ answer' = [user_id |-> user_id, text |-> ValidationMsg]
            /\ UNCHANGED <<tables, history, today, calls, n_calls,
                           agg, reminder, cal, state, data, db, racers>>
       ELSE /\ ~ Awaited(c)
            /\ StartAddHabit(c, user_id, habit_text)

\* process_add_habit_name once add_habit has returned: state.clear(), then the
\* confirmation or the message add_habit returned.  (The get_habits_count that
\* picks one of two confirmation wordings is left out.)
process_add_habit_name_resume(c) ==
    /\ Returned(c, "add_habit") /\ calls[c].handler = "none"
    /\ state' = StateCleared(calls[c].user_id)
    /\ data' = DataCleared(calls[c].user_id)
    /\ answer' = [user_id |-> calls[c].user_id,
                   text |-> IF calls[c].result = Ok THEN AddedMsg ELSE calls[c].response]
    /\ calls' = [calls EXCEPT ![c] = Idle]
    /\ UNCHANGED <<tables, history, today, n_calls, agg, reminder, cal, db, racers>>

\* cmd_cancel: nothing when there is no state, else state.clear() and "Otmeneno."
cmd_cancel(user_id) ==
    /\ IF state[user_id] = NoState
       THEN UNCHANGED chat
       ELSE /\ state' = StateCleared(user_id)
            /\ data' = DataCleared(user_id)
            /\ answer' = [user_id |-> user_id, text |-> CancelledMsg]
    /\ UNCHANGED <<tables, history, today, calls, n_calls, agg, reminder, cal, db, racers>>

\* handle_edit_habit_choice: the ownership test on get_habits(user_id), then
\* state.update_data(habit_id=...) and state.set_state(waiting_for_new_name)
handle_edit_habit_choice(user_id, habit_id) ==
    /\ IF ~ AnyHabitHasId(get_habits(user_id), habit_id)
       THEN /\ answer' = [user_id |-> user_id, text |-> UnavailableMsg]
            /\ UNCHANGED <<state, data>>
       ELSE /\ data' = [data EXCEPT ![user_id] = habit_id]
            /\ state' = [state EXCEPT ![user_id] = WaitingForNewName]
            /\ answer' = [user_id |-> user_id, text |-> EditPromptMsg]
    /\ UNCHANGED <<tables, history, today, calls, n_calls, agg, reminder, cal, db, racers>>

\* process_edit_habit_name up to its first storage await: the validation
\* message; or state.get_data(), state.clear() and then "session expired" or the
\* call of update_habit_name(habit_id, user_id, new_name)
process_edit_habit_name(c, user_id, text) ==
    /\ state[user_id] = WaitingForNewName
    /\ LET new_name == StrippedText[text] IN
       IF TooShort(new_name)
       THEN /\ answer' = [user_id |-> user_id, text |-> ValidationMsg]
            /\ UNCHANGED <<tables, history, today, calls, n_calls,
                           agg, reminder, cal, state, data, db, racers>>
       ELSE /\ state' = StateCleared(user_id)
            /\ data' = DataCleared(user_id)
            /\ IF data[user_id] = 0
               THEN /\ answer' = [user_id |-> user_id, text |-> SessionExpiredMsg]
                    /\ UNCHANGED <<tables, history, today, calls, n_calls>>
               ELSE /\ ~ Awaited(c)
                    /\ BeginUpdateHabitName(c, data[user_id], user_id, new_name)
                    /\ UNCHANGED answer
            /\ UNCHANGED <<agg, reminder, cal, db, racers>>

\* process_edit_habit_name once update_habit_name has returned
process_edit_habit_name_resume(c) ==
    /\ Returned(c, "update_habit_name")
    /\ answer' = [user_id |-> calls[c].user_id,
                   text |-> IF calls[c].result = Ok THEN RenamedMsg ELSE NotFoundMsg]
    /\ calls' = [calls EXCEPT ![c] = Idle]
    /\ UNCHANGED <<tables, history, today, n_calls, agg, reminder, cal, state, data, db, racers>>

NextFlow ==
    \/ \E u \in Users : cmd_menu_add_habit(u)
    \/ \E c \in Tasks, u \in Users, t \in FlowTexts : process_add_habit_name(c, u, t)
    \/ \E c \in Tasks : process_add_habit_name_resume(c)
    \/ \E u \in Users : cmd_cancel(u)
    \/ \E u \in Users, h \in HabitIds : handle_edit_habit_choice(u, h)
    \/ \E c \in Tasks, u \in Users, t \in FlowTexts : process_edit_habit_name(c, u, t)
    \/ \E c \in Tasks : process_edit_habit_name_resume(c)
    \/ \E c \in Tasks : GetUserMaxHabitsSelect(c)
    \/ \E c \in Tasks : GetUserMaxHabitsInsert(c)
    \/ \E c \in Tasks : AddHabitCount(c)
    \/ \E c \in Tasks : AddHabitInsert(c)
    \/ \E c \in Tasks : UpdateHabitNameSelect(c)
    \/ \E c \in Tasks : UpdateHabitNameUpdate(c)
    \/ \E c \in Tasks : StorageFailure(c)

\* The conversations start on the tables earlier calls left: user 1 has a
\* habit with a log, user 2 has never asked for a quota.
InitFlow ==
    /\ users = [u \in Users |-> IF u = 1 THEN DEFAULT_MAX_HABITS ELSE 0]
    /\ habits = {FirstHabit} /\ habit_seq = 1
    /\ daily_logs = {FirstLog} /\ log_seq = 1
    /\ first_level = {<<1, 1, LevelMin>>}
    /\ today = 1
    /\ calls = [c \in Tasks |-> Idle]
    /\ n_calls = 0
    /\ raced = {}
    /\ deleted_ok = {}
    /\ conflicted = {}
    /\ agg = NoQuery
    /\ reminder = NoRun
    /\ cal = NoRequest
    /\ state = [u \in Users |-> NoState]
    /\ data = [u \in Users |-> 0]
    /\ answer = NoAnswer
    /\ db = NoDb
    /\ racers = NoRacers

SpecFlow == InitFlow /\ [][NextFlow]_vars

(***************************************************************************)
(* The settings menu: renaming and deleting a habit.  handle_delete_*      *)
(* keep no conversation state: the habit_id travels in the callback data   *)
(* of the button, which a client may send at any time and with any id.     *)
(***************************************************************************)
DeletePromptMsg == "Vy uvereny, chto hotite udalit privychku"
DeletedMsg == "Privychka udalena"

\* handle_delete_habit_choice: the ownership test on get_habits(user_id), then
\* the question with the buttons delete_cancel and delete_confirm_<habit_id>
handle_delete_habit_choice(user_id, habit_id) ==
    /\ answer' = [user_id |-> user_id,
                   text |-> IF AnyHabitHasId(get_habits(user_id), habit_id)
                            THEN DeletePromptMsg ELSE UnavailableMsg]
    /\ UNCHANGED <<tables, history, today, calls, n_calls, agg, reminder, cal, state, data, db, racers>>

\* handle_delete_cancel: the question is replaced by "Otmeneno."
handle_delete_cancel(user_id) ==
    /\ answer' = [user_id |-> user_id, text |-> CancelledMsg]
    /\ UNCHANGED <<tables, history, today, calls, n_calls, agg, reminder, cal, state, data, db, racers>>

\* handle_delete_confirm up to its await: the call of delete_habit(habit_id, user_id)
handle_delete_confirm(c, user_id, habit_id) ==
    /\ ~ Awaited(c)
    /\ StartDeleteHabit(c, habit_id, user_id)

\* handle_delete_confirm once delete_habit has returned
handle_delete_confirm_resume(c) ==
    /\ Returned(c, "delete_habit")
    /\ answer' = [user_id |-> calls[c].user_id,
                   text |-> IF calls[c].result = Ok THEN DeletedMsg ELSE NotFoundMsg]
    /\ calls' = [calls EXCEPT ![c] = Idle]
    /\ UNCHANGED <<tables, history, today, n_calls, agg, reminder, cal, state, data, db, racers>>

NextSettings ==
    \/ \E u \in Users, h \in HabitIds : handle_edit_habit_choice(u, h)
    \/ \E c \in Tasks, u \in Users, t \in FlowTexts : process_edit_habit_name(c, u, t)
    \/ \E c \in Tasks : process_edit_habit_name_resume(c)
    \/ \E u \in Users, h \in HabitIds : handle_delete_habit_choice(u, h)
    \/ \E u \in Users : handle_delete_cancel(u)
    \/ \E c \in Tasks, u \in Users, h \in HabitIds : handle_delete_confirm(c, u, h)
    \/ \E c \in Tasks : handle_delete_confirm_resume(c)
    \/ \E c \in Tasks : UpdateHabitNameSelect(c)
    \/ \E c \in Tasks : UpdateHabitNameUpdate(c)
    \/ \E c \in Tasks : DeleteHabitSelect(c)
    \/ \E c \in Tasks : DeleteHabitLogs(c)
    \/ \E c \in Tasks : DeleteHabitRow(c)
    \/ \E c \in Tasks : StorageFailure(c)

SpecSettings == InitFlow /\ [][NextSettings]_vars

(***************************************************************************)
(* The dispatcher.  Every message is offered to the message handlers in    *)
(* the order main.py registers them (lines 144, 278, 301, 311, 320, 352,   *)
(* 359, 386, 547, 572) and handled by the first whose filter accepts it.   *)
(* A handler registered without a state filter accepts in every state.     *)
(***************************************************************************)
\* The command of a message: its first word when that begins with "/".
Command(text) ==
    IF text = PyNone \/ text = <<>> THEN "none"
    ELSE IF Head(text) \in {"/start", "/cancel", "/calendar", "/sethabit"} THEN Head(text)
    ELSE "none"

\* The handler that takes a message with this text from a user in state st.
Route(st, text) ==
    IF text # PyNone /\ text # <<>> /\ Head(text) = MarkProgressPrefix THEN "cmd_mark_progress"
    ELSE IF Command(text) = "/start" THEN "cmd_start"
    ELSE IF Command(text) = "/cancel" THEN "cmd_cancel"
    ELSE IF Command(text) = "/calendar" THEN "cmd_calendar"
    ELSE IF Command(text) = "/sethabit" THEN "cmd_set_habit"
    ELSE IF text \in AddHabitButtons THEN "cmd_menu_add_habit"
    ELSE IF st = WaitingForName THEN "process_add_habit_name"
    ELSE IF text \in SettingsButtons THEN "cmd_settings"
    ELSE IF st = WaitingForNewName THEN "process_edit_habit_name"
    ELSE "catch_all_handler"

NoHabitsMsg == "U tebya poka net privychek"
ChooseHabitMsg == "Vyberite privychku"
OnboardingMsg == "Privet! Davajte dobavim pervuyu privychku?"
WelcomeMsg == "Privet! Ya bot-treker privychek"
CalendarMsg == "Kalendar privychek:"
SettingsMsg == "Nastrojki"
UsageMsg == "Pozhalujsta, ukazhi tekst privychki posle komandy"
SetHabitShortMsg == "Tekst privychki dolzhen byt ne menshe 2 simvolov!"

\* cmd_mark_progress: state.clear(), then the list of habits to choose from
cmd_mark_progress(user_id) ==
    /\ state' = StateCleared(user_id)
    /\ data' = DataCleared(user_id)
    /\ answer' = [user_id |-> user_id,
                   text |-> IF get_habits(user_id) = <<>> THEN NoHabitsMsg
                            ELSE ChooseHabitMsg]
    /\ UNCHANGED <<tables, history, today, calls, n_calls, agg, reminder, cal, db, racers>>

\* cmd_start: state.clear(), then the onboarding or the greeting
cmd_start(user_id) ==
    /\ state' = StateCleared(user_id)
    /\ data' = DataCleared(user_id)
    /\ answer' = [user_id |-> user_id,
                   text |-> IF get_habits_count(user_id) = 0 THEN OnboardingMsg
                            ELSE WelcomeMsg]
    /\ UNCHANGED <<tables, history, today, calls, n_calls, agg, reminder, cal, db, racers>>

\* cmd_calendar: the button that opens the web app
cmd_calendar(user_id) ==
    /\ answer' = [user_id |-> user_id, text |-> CalendarMsg]
    /\ UNCHANGED <<tables, history, today, calls, n_calls, agg, reminder, cal, state, data, db, racers>>

\* cmd_settings: state.clear(), then the settings menu
cmd_settings(user_id) ==
    /\ state' = StateCleared(user_id)
    /\ data' = DataCleared(user_id)
    /\ answer' = [user_id |-> user_id, text |-> SettingsMsg]
    /\ UNCHANGED <<tables, history, today, calls, n_calls, agg, reminder, cal, db, racers>>

\* message.text.split(maxsplit=1)[1], <<>> when there is no second part
CommandArgs(text) == LStrip(Tail(text))

\* cmd_set_habit up to its await: the usage message, the validation message,
\* or the call of add_habit(user_id, habit_text).  The state is left alone.
cmd_set_habit(c, user_id, text) ==
    IF CommandArgs(text) = <<>>
    THEN /\ answer' = [user_id |-> user_id, text |-> UsageMsg]
         /\ UNCHANGED <<tables, history, today, calls, n_calls,
                        agg, reminder, cal, state, data, db, racers>>
    ELSE LET habit_text == Strip(CommandArgs(text)) IN
         IF TooShort(habit_text)
         THEN /\ answer' = [user_id |-> user_id, text |-> SetHabitShortMsg]
              /\ UNCHANGED <<tables, history, today, calls, n_calls,
                             agg, reminder, cal, state, data, db, racers>>
         ELSE /\ ~ Awaited(c)
              /\ BeginAddHabit(c, user_id, habit_text, "cmd_set_habit")
              /\ UNCHANGED passive

\* cmd_set_habit once add_habit has returned
cmd_set_habit_resume(c) ==
    /\ Returned(c, "add_habit") /\ calls[c].handler = "cmd_set_habit"
    /\ answer' = [user_id |-> calls[c].user_id,
                   text |-> IF calls[c].result = Ok THEN AddedMsg ELSE calls[c].response]
    /\ calls' = [calls EXCEPT ![c] = Idle]
    /\ UNCHANGED <<tables, history, today, n_calls, agg, reminder, cal, state, data, db, racers>>

\* The texts sent, and the one user who sends them (the dispatcher keeps the
\* state of each user apart).
DispatchTexts == MenuTexts \cup FlowTexts
Talkers == {1}

\* Route for every state and text.
Routes ==
    [st \in {NoState, WaitingForName, WaitingForNewName}, t \in DispatchTexts |->
        Route(st, t)]

\* The texts that go to `handler` when sent by user_id now.
TextsFor(handler, user_id) ==
    {t \in DispatchTexts : Routes[state[user_id], t] = handler}

NextDispatch ==
    \/ \E u \in Talkers : \E t \in TextsFor("cmd_mark_progress", u) :
          cmd_mark_progress(u)
    \/ \E u \in Talkers : \E t \in TextsFor("cmd_start", u) :
          cmd_start(u)
    \/ \E u \in Talkers : \E t \in TextsFor("cmd_cancel", u) :
          cmd_cancel(u)
    \/ \E u \in Talkers : \E t \in TextsFor("cmd_calendar", u) :
          cmd_calendar(u)
    \/ \E c \in Tasks, u \in Talkers : \E t \in TextsFor("cmd_set_habit", u) :
          cmd_set_habit(c, u, t)
    \/ \E u \in Talkers : \E t \in TextsFor("cmd_menu_add_habit", u) :
          cmd_menu_add_habit(u)
    \/ \E c \in Tasks, u \in Talkers : \E t \in TextsFor("process_add_habit_name", u) :
          process_add_habit_name(c, u, t)
    \/ \E u \in Talkers : \E t \in TextsFor("cmd_settings", u) :
          cmd_settings(u)
    \/ \E c \in Tasks, u \in Talkers : \E t \in TextsFor("process_edit_habit_name", u) :
          process_edit_habit_name(c, u, t)
    \/ \E u \in Talkers, h \in HabitIds : handle_edit_habit_choice(u, h)
    \/ \E c \in Tasks : cmd_set_habit_resume(c)
    \/ \E c \in Tasks : process_add_habit_name_resume(c)
    \/ \E c \in Tasks : process_edit_habit_name_resume(c)
    \/ \E c \in Tasks : GetUserMaxHabitsSelect(c)
    \/ \E c \in Tasks : GetUserMaxHabitsInsert(c)
    \/ \E c \in Tasks : AddHabitCount(c)
    \/ \E c \in Tasks : AddHabitInsert(c)
    \/ \E c \in Tasks : UpdateHabitNameSelect(c)
    \/ \E c \in Tasks : UpdateHabitNameUpdate(c)
    \/ \E c \in Tasks : StorageFailure(c)

\* The bot starts on the empty tables of init_db, with no conversation open.
InitDispatch ==
    /\ InitEmpty
    /\ today = 1
    /\ calls = [c \in Tasks |-> Idle]
    /\ n_calls = 0
    /\ raced = {}
    /\ deleted_ok = {}
    /\ conflicted = {}
    /\ agg = NoQuery
    /\ reminder = NoRun
    /\ cal = NoRequest
    /\ state = [u \in Users |-> NoState]
    /\ data = [u \in Users |-> 0]
    /\ answer = NoAnswer
    /\ db = NoDb
    /\ racers = NoRacers

SpecDispatch == InitDispatch /\ [][NextDispatch]_vars

(***************************************************************************)
(* Properties.                                                             *)
(***************************************************************************)
CallsOf(op) == {c \in Tasks : calls[c].op = op}
Completed(op) == {c \in Tasks : calls[c].op = op /\ calls[c].pc = "done"}
OwnedBy(user_id) == {h \in habits : h.user_id = user_id}

\* C1, as claimed: whatever the interleaving of add_habit calls, no user owns
\* more habits than the user's quota.
QuotaInvariant ==
    \A u \in Users : Cardinality(OwnedBy(u)) <= Quota(u)

\* C1, amended: a user for whom no add_habit call inserted a habit while another
\* add_habit call of the same user stood between its quota test and its INSERT
\* owns at most quota habits.
QuotaInvariantNoOverlap ==
    \A u \in Users : u \notin raced => Cardinality(OwnedBy(u)) <= Quota(u)

\* C1 witness: an add_habit call that did not overlap another has returned success
\* and filled the user's quota exactly.
QuotaFilled ==
    \E c \in Completed("add_habit") :
        /\ calls[c].result = Ok
        /\ calls[c].user_id \notin raced
        /\ Cardinality(OwnedBy(calls[c].user_id)) = Quota(calls[c].user_id)

\* C2: at most one daily_logs row per (habit_id, log_date), in every state.
UniqueLogPerHabitDate ==
    \A r1, r2 \in daily_logs :
        (r1.habit_id = r2.habit_id /\ r1.log_date = r2.log_date) => r1 = r2

\* C2 witness: two calls raced on one pair (both passed the existence SELECT); one
\* created the row and the INSERT of the other was refused.
RacedOnOnePair ==
    \E c1, c2 \in Completed("handle_habit_callback") :
        /\ calls[c1].habit_id = calls[c2].habit_id
        /\ calls[c1].log_date = calls[c2].log_date
        /\ calls[c1].result = Created
        /\ calls[c2].result = UniqueViolationError

\* C3, as claimed: the level stored for a (habit, date) is the level the first
\* successful save for the pair wrote; no later save changes it.  A save that
\* lands between the two DELETE statements of delete_habit finds the pair's row
\* removed and stores its own level.
LevelImmutableOnceSet ==
    \A r \in daily_logs : <<r.habit_id, r.log_date, r.efficiency_level>> \in first_level

\* C4, as claimed: of two completed level-choice calls on one (habit, date), neither
\* hit by a connectivity failure or a missing habit, each either created the row
\* or was a no-op (False, True); not both created it; and the one that did not
\* create it answered "already marked".
SecondSaveIsNoOp ==
    \A c1, c2 \in Completed("handle_habit_callback") :
        ( /\ c1 # c2
          /\ calls[c1].habit_id = calls[c2].habit_id
          /\ calls[c1].log_date = calls[c2].log_date
          /\ {calls[c1].result, calls[c2].result}
                \cap {StorageError, ForeignKeyViolationError} = {} )
        => /\ {calls[c1].result, calls[c2].result} \subseteq {Created, AlreadyExisted}
           /\ ~ (calls[c1].result = Created /\ calls[c2].result = Created)
           /\ \A c \in {c1, c2} :
                 calls[c].result # Created => calls[c].response = AlreadyMarkedMsg

\* C5: every daily_logs row names a habit that exists, in every state.
NoOrphanLogs ==
    \A r \in daily_logs : \E h \in habits : h.id = r.habit_id

\* C5 witness: a level-choice call for a habit that had been deleted ran its INSERT
\* and was refused.
SaveAfterDeleteRefused ==
    \E c \in Completed("handle_habit_callback") :
        /\ calls[c].result = ForeignKeyViolationError
        /\ \E u \in Users : <<calls[c].habit_id, u>> \in deleted_ok

\* What holds of every habit delete_habit reported deleted.
DeletedIsGone ==
    \A p \in deleted_ok :
        /\ get_daily_logs_for_habit(p[1]) = <<>>
        /\ \A i \in DOMAIN get_habits(p[2]) : get_habits(p[2])[i][1] # p[1]

\* C6: once delete_habit(id, u) has succeeded, the habit has no logs and is not in
\* get_habits(u), and an update_habit_name(id, u, ...) or delete_habit(id, u) that
\* runs its ownership SELECT afterwards returns not-found.
DeleteRemovesHabitAndLogs ==
    [][ /\ DeletedIsGone'
        /\ \A c \in CallsOf("update_habit_name") \cup CallsOf("delete_habit") :
              ( /\ calls[c].pc = "select"
                /\ <<calls[c].habit_id, calls[c].user_id>> \in deleted_ok
                /\ calls'[c].pc = "done"
                /\ calls'[c].result # StorageError )
              => calls'[c].result = NotFound ]_vars

\* C6 witness: delete_habit removed a habit together with its log, and a later
\* update_habit_name of the same habit by the same user returned not-found.
RenameAfterDelete ==
    \E d \in Completed("delete_habit"), c \in Completed("update_habit_name") :
        /\ calls[d].result = Ok /\ calls[d].logs_deleted > 0
        /\ calls[c].habit_id = calls[d].habit_id
        /\ calls[c].user_id = calls[d].user_id
        /\ calls[c].result = NotFound

\* C7, as claimed: no state shows a habit whose logs delete_habit has removed while
\* the habits row is still there.
DeleteHabitAtomic ==
    \A c \in CallsOf("delete_habit") :
        calls[c].logs_deleted > 0 =>
            ~ \E h \in habits : h.id = calls[c].habit_id

\* C9: an update_habit_name or delete_habit whose ownership SELECT runs when the
\* habit does not exist or belongs to another user returns not-found, and that
\* step changes neither habits nor daily_logs.
OwnershipChecked ==
    [][ \A c \in CallsOf("update_habit_name") \cup CallsOf("delete_habit") :
          ( /\ calls[c].pc = "select"
            /\ calls'[c] # calls[c]
            /\ calls'[c].result # StorageError
            /\ ~ \E h \in habits :
                    h.id = calls[c].habit_id /\ h.user_id = calls[c].user_id )
          => /\ calls'[c].pc = "done"
             /\ calls'[c].result = NotFound
             /\ habits' = habits
             /\ daily_logs' = daily_logs ]_vars

\* C9 witness: a user asked to rename a habit of another user and got not-found;
\* the habit is still there.
ForeignRenameRefused ==
    \E c \in Completed("update_habit_name") :
        /\ calls[c].result = NotFound
        /\ \E h \in habits : h.id = calls[c].habit_id /\ h.user_id # calls[c].user_id

\* C10, as claimed: a level-choice call creates a log only for a habit of the user
\* who sent it.
LogOnlyForOwnHabit ==
    \A c \in Completed("handle_habit_callback") :
        calls[c].result = Created =>
            \A h \in habits : h.id = calls[c].habit_id => h.user_id = calls[c].user_id

\* C11: an add_habit call that counts the user's habits when the user owns at
\* least quota habits returns the quota-exceeded outcome with a message naming
\* the quota, and the step leaves the habits table as it was.
QuotaExceededLeavesHabits ==
    [][ \A c \in CallsOf("add_habit") :
          ( /\ calls[c].pc = "count"
            /\ calls'[c] # calls[c]
            /\ calls'[c].result # StorageError
            /\ get_habits_count(calls[c].user_id) >= Quota(calls[c].user_id) )
          => /\ calls'[c].pc = "done"
             /\ calls'[c].result = QuotaExceeded
             /\ calls'[c].response = QuotaExceededMsg(Quota(calls[c].user_id))
             /\ habits' = habits ]_vars

\* C11 witness: an add_habit call of a user who owns quota habits has returned
\* quota-exceeded.
ThirdHabitRefused ==
    \E c \in Completed("add_habit") :
        /\ calls[c].result = QuotaExceeded
        /\ calls[c].response = QuotaExceededMsg(DEFAULT_MAX_HABITS)
        /\ Cardinality(OwnedBy(calls[c].user_id)) = Quota(calls[c].user_id)

\* t is s without its leading and trailing whitespace: a stretch of s that
\* neither starts nor ends with whitespace, with only whitespace cut off.
IsTrimmed(t, s) ==
    /\ t = <<>> \/ (t[1] # " " /\ t[Len(t)] # " ")
    /\ \E i \in 1..(Len(s) + 1) :
          /\ i + Len(t) - 1 <= Len(s)
          /\ t = SubSeq(s, i, i + Len(t) - 1)
          /\ \A k \in 1..Len(s) : (k < i \/ k > i + Len(t) - 1) => s[k] = " "

\* C12: when the UPDATE of a successful update_habit_name(id, u, t2) meets the
\* habit, get_habits(u) afterwards lists the id once, with t2 trimmed of
\* whitespace and not with the text it had; the ids and owners of all habits and
\* the daily_logs table are as before.
RenameRoundTrip ==
    [][ \A c \in CallsOf("update_habit_name") :
          ( /\ calls[c].pc = "update"
            /\ calls'[c].result = Ok
            /\ SelectOwnedHabit(calls[c].habit_id, calls[c].user_id) # {} )
          => LET id == calls[c].habit_id
                 list == (get_habits(calls[c].user_id))'
                 at == {i \in DOMAIN list : list[i][1] = id}
             IN  /\ Cardinality(at) = 1
                 /\ \A i \in at : IsTrimmed(list[i][2], calls[c].text)
                 /\ \A h \in habits : \A i \in at :
                       (h.id = id /\ ~ IsTrimmed(h.habit_text, calls[c].text))
                           => list[i][2] # h.habit_text
                 /\ {<<h.id, h.user_id>> : h \in habits'} =
                       {<<h.id, h.user_id>> : h \in habits}
                 /\ \A h \in habits : h.id # id => h \in habits'
                 /\ daily_logs' = daily_logs ]_vars

\* C12 witness: starting from empty tables, a user created a habit and then
\* renamed it with a padded text; the list shows the trimmed new text.
CreatedThenRenamed ==
    \E a \in Completed("add_habit"), c \in Completed("update_habit_name") :
        /\ log_seq = 0 /\ habit_seq = 1
        /\ calls[a].result = Ok /\ calls[c].result = Ok
        /\ calls[a].user_id = calls[c].user_id
        /\ calls[c].habit_id = 1
        /\ calls[c].text = <<" ", "c", "d", " ">>
        /\ get_habits(calls[c].user_id) = << <<1, <<"c", "d">>>> >>

\* C14: no step removes a users row or changes a stored quota; a
\* get_user_max_habits whose statement runs does not raise; it returns the
\* stored quota when the SELECT finds the row, and otherwise inserts the default
\* quota unless a row has appeared, and returns the default; in either case the
\* value returned is the quota stored for the user at that moment.
QuotaLookupIdempotent ==
    [][ /\ \A u \in Users : users[u] # 0 => users'[u] = users[u]
        /\ \A c \in CallsOf("add_habit") :
              ( /\ calls[c].pc \in {"users_select", "users_insert"}
                /\ calls'[c] # calls[c]
                /\ calls'[c].result # StorageError )
              => LET u == calls[c].user_id
                 IN  /\ calls'[c].pc \in {"users_insert", "count"}
                     /\ calls'[c].pc = "users_insert" => users[u] = 0 /\ users' = users
                     /\ calls'[c].pc = "count" =>
                           /\ users'[u] # 0
                           /\ calls'[c].max_habits = users'[u]
                           /\ users[u] = 0 => users'[u] = DEFAULT_MAX_HABITS
                           /\ \A v \in Users \ {u} : users'[v] = users[v] ]_vars

\* C14 witness: two first calls for one user both found no row; the INSERT of the
\* second met the row the first had created, and both calls went on with the
\* default quota.
BothFirstCallsReturned ==
    \E c1, c2 \in CallsOf("add_habit") :
        /\ c1 # c2
        /\ calls[c1].user_id = calls[c2].user_id
        /\ calls[c1].user_id \in conflicted
        /\ users[calls[c1].user_id] = DEFAULT_MAX_HABITS
        /\ calls[c1].pc = "count" /\ calls[c1].max_habits = DEFAULT_MAX_HABITS
        /\ calls[c2].pc = "count" /\ calls[c2].max_habits = DEFAULT_MAX_HABITS

\* C17, as claimed: every call hit by a storage failure has answered the user
\* with an error message.  Only handle_habit_callback catches the exception of
\* its storage call; add_habit, update_habit_name and delete_habit raise through
\* their handlers, which send nothing.
StorageFailureSurfaced ==
    \A c \in Tasks :
        calls[c].result = StorageError => calls[c].response = SaveErrorMsg

(***************************************************************************)
(* Properties of the aggregation, under SpecAgg.                           *)
(***************************************************************************)
LogsOfUser(user_id) ==
    {r \in daily_logs : \E h \in habits : h.id = r.habit_id /\ h.user_id = user_id}

\* C8: the list has exactly one entry for each date on which a habit of the user
\* has a log and no other entry, in ascending date order; the level of an entry is
\* the level of one of the user's logs of that date, and no log of the user on
\* that date ranks higher.
AggregationCorrect ==
    agg.user_id # 0 =>
        LET logs == LogsOfUser(agg.user_id)
            out == agg.out
        IN  /\ \A r \in logs :
                  Cardinality({i \in DOMAIN out : out[i][1] = DateKey(r.log_date)}) = 1
            /\ \A i \in DOMAIN out :
                  \E r \in logs :
                      /\ out[i][1] = DateKey(r.log_date)
                      /\ out[i][2] = r.efficiency_level
                      /\ \A q \in logs :
                            q.log_date = r.log_date =>
                                RankOf(q.efficiency_level) <= RankOf(out[i][2])
            /\ \A i, j \in DOMAIN out :
                  i < j => \E ri, rj \in logs :
                              /\ out[i][1] = DateKey(ri.log_date)
                              /\ out[j][1] = DateKey(rj.log_date)
                              /\ ri.log_date < rj.log_date

\* C8 witness: the query ran for a user with two logs of different rank on one
\* date, the better one scanned first, while another user has a still better log
\* on that date.
AggregatedTwoHabits ==
    /\ agg.user_id = 1
    /\ Len(agg.out) = 1
    /\ \E i, j \in DOMAIN agg.rows :
          /\ i < j
          /\ agg.rows[i].log_date = agg.rows[j].log_date
          /\ RankOf(agg.rows[i].efficiency_level) > RankOf(agg.rows[j].efficiency_level)
          /\ \E r \in LogsOfUser(2) :
                /\ r.log_date = agg.rows[i].log_date
                /\ RankOf(r.efficiency_level) > RankOf(agg.rows[i].efficiency_level)

(***************************************************************************)
(* Properties of the reminder, under SpecReminder and FairSpecReminder.    *)
(***************************************************************************)
NoLogOn(habit_id, log_date) ==
    ~ \E r \in daily_logs : r.habit_id = habit_id /\ r.log_date = log_date

\* C13: the rows get_unmarked_habits_for_reminder(d) returned are the habits of
\* all users that have no log of d, each once, with its owner and text: a habit
\* with a log of d is left out, a habit with no log or with logs of other dates
\* only is in.
UnmarkedExact ==
    reminder.queried = "ok" =>
        LET rows == reminder.rows
        IN  /\ \A h \in habits :
                  NoLogOn(h.id, reminder.today) <=>
                      \E k \in DOMAIN rows : rows[k] = <<h.user_id, h.id, h.habit_text>>
            /\ \A k \in DOMAIN rows :
                  \E h \in habits : rows[k] = <<h.user_id, h.id, h.habit_text>>
            /\ \A j, k \in DOMAIN rows : j # k => rows[j][2] # rows[k][2]

\* C13 witness: the query ran on tables where one habit is logged today, one has a
\* log of yesterday only and one has no log; it returned the last two.
UnmarkedQueried ==
    /\ reminder.queried = "ok"
    /\ ~ NoLogOn(1, reminder.today)
    /\ NoLogOn(2, reminder.today) /\ ~ NoLogOn(2, reminder.today - 1)
    /\ \A r \in daily_logs : r.habit_id # 3
    /\ {reminder.rows[k][2] : k \in DOMAIN reminder.rows} = {2, 3}

\* The send attempts so far are for the first rows of the query, one each and in
\* order; none is for a habit that has a log of today; a finished run has
\* attempted every row; a run whose query failed attempts nothing.
ReminderRunSafe ==
    LET rows == reminder.rows
        attempts == reminder.attempts
    IN  /\ Len(attempts) <= Len(rows)
        /\ \A k \in DOMAIN attempts :
              attempts[k][1] = rows[k][1] /\ attempts[k][2] = rows[k][2]
        /\ \A j, k \in DOMAIN attempts : j # k => attempts[j][2] # attempts[k][2]
        /\ \A k \in DOMAIN attempts : NoLogOn(attempts[k][2], reminder.today)
        /\ reminder.pc = "done" => Len(attempts) = Len(rows)
        /\ reminder.queried # "ok" => attempts = <<>>

\* C18: a reminder run makes one send attempt for each row of the query and for
\* nothing else, whatever sends fail, and the run ends.
ReminderRunCompletes ==
    /\ []ReminderRunSafe
    /\ <>(reminder.pc = "done")

\* C18 witness: a run has ended in which the first send failed and the sends for
\* the two rows after it were attempted, one of them failing too.
FailedSendNotLast ==
    /\ reminder.pc = "done"
    /\ Len(reminder.attempts) = 3
    /\ ~ reminder.attempts[1][3]
    /\ reminder.attempts[2][3]
    /\ ~ reminder.attempts[3][3]

(***************************************************************************)
(* Properties of the calendar endpoint, under SpecCalendar.                *)
(***************************************************************************)
CalendarValues == {"good", "minimum", "no-data"}

\* The calendar value of a rank of level_rank.
ValueOfRank(rank) ==
    CASE rank = 3 -> "good"
      [] rank = 2 -> "minimum"
      [] OTHER -> "no-data"

\* The logs a served request draws on.
RequestedLogs ==
    IF cal.by_habit THEN {r \in daily_logs : r.habit_id = cal.habit_id}
    ELSE LogsOfUser(cal.user_id)

\* C15: every value of a served calendar is "good", "minimum" or "no-data";
\* each entry carries the value of the rank of a stored level of its date, so a
\* level that is no key of the table once trimmed (unknown, blank, empty) gives
\* "no-data"; every date with a log is in the mapping (nothing raised); a None
\* level gives "no-data".
CalendarValuesNormalized ==
    /\ cal.status = 200 =>
          /\ \A e \in cal.body : e[2] \in CalendarValues
          /\ \A e \in cal.body :
                \E r \in RequestedLogs :
                    /\ e[1] = DateKey(r.log_date)
                    /\ e[2] = ValueOfRank(RankOf(r.efficiency_level))
          /\ \A r \in RequestedLogs :
                Cardinality({e \in cal.body : e[1] = DateKey(r.log_date)}) = 1
    /\ CalendarResult({}, << <<DateKey(9), PyNone>> >>) = {<<DateKey(9), "no-data">>}

\* C15 witness: a calendar was served for a habit with one log of an unknown
\* spelling and one log of a padded known spelling.
UnknownLevelServed ==
    /\ cal.status = 200 /\ cal.by_habit /\ cal.habit_id = 1
    /\ \E r \in daily_logs :
          r.habit_id = 1 /\ r.log_date = 9 /\ r.efficiency_level = <<"?">>
    /\ \E r \in daily_logs :
          r.habit_id = 1 /\ r.log_date = 10 /\ r.efficiency_level = <<" ", "good", " ">>
    /\ cal.body = {<<DateKey(9), "no-data">>, <<DateKey(10), "good">>}

\* C16: a request naming a habit_id that is no habit of the user is answered 404
\* with no log; one naming a habit of the user is answered 200 with one entry
\* for each log of that habit and no other entry.
HabitCalendarOwned ==
    (cal.by_habit /\ cal.status \notin {0, 500}) =>
        IF \E h \in habits : h.id = cal.habit_id /\ h.user_id = cal.user_id
        THEN /\ cal.status = 200
             /\ \A e \in cal.body :
                   \E r \in daily_logs :
                       /\ r.habit_id = cal.habit_id
                       /\ e[1] = DateKey(r.log_date)
                       /\ e[2] = LEVEL_TO_CALENDAR(Strip(r.efficiency_level))
             /\ Cardinality(cal.body) =
                   Cardinality({r \in daily_logs : r.habit_id = cal.habit_id})
        ELSE cal.status = 404 /\ cal.body = {}

\* C16 witness: user 2 asked for the calendar of habit 1, which is user 1's and
\* has a log, and was answered 404.
ForeignCalendarRefused ==
    /\ cal.by_habit /\ cal.user_id = 2 /\ cal.habit_id = 1
    /\ cal.status = 404
    /\ \E r \in daily_logs : r.habit_id = 1

(***************************************************************************)
(* Properties of the conversations, under SpecFlow.                        *)
(***************************************************************************)
\* The text of a message, "" when it has none.
TextOf(text) == IF text = PyNone THEN <<>> ELSE text

\* s without its leading and trailing whitespace.
Trimmed(s) ==
    CHOOSE t \in {SubSeq(s, i, j) : i \in 1..(Len(s) + 1), j \in 0..Len(s)} :
        IsTrimmed(t, s)

\* The trimmed text of each message the conversations are given.
TrimmedText == [t \in FlowTexts |-> Trimmed(TextOf(t))]

\* C19: a message handled in waiting_for_name whose text, trimmed, has fewer
\* than 2 characters leaves the user in waiting_for_name, starts no call and
\* creates no habit; a longer one starts exactly one add_habit call, with the
\* trimmed text; and when that call has returned success or quota-exceeded the
\* handler leaves the user with no state.  (A step of the handler that changes
\* neither the answer nor the number of calls repeats the validation message it
\* gave last and changes nothing at all.)
AddHabitFlow ==
    [][ /\ (answer' # answer \/ n_calls' # n_calls) =>
              \A u \in {v \in Users : state[v] = WaitingForName} :
                  \A c \in Tasks, t \in FlowTexts :
                      process_add_habit_name(c, u, t) =>
                          IF Len(TrimmedText[t]) < 2
                          THEN /\ state'[u] = WaitingForName
                               /\ calls' = calls /\ n_calls' = n_calls
                               /\ habits' = habits
                               /\ answer' = [user_id |-> u, text |-> ValidationMsg]
                          ELSE /\ n_calls' = n_calls + 1
                               /\ calls'[c].op = "add_habit"
                               /\ calls'[c].pc = "users_select"
                               /\ calls'[c].user_id = u
                               /\ calls'[c].text = TrimmedText[t]
                               /\ \A d \in Tasks \ {c} : calls'[d] = calls[d]
                               /\ habits' = habits
        /\ \A c \in Tasks :
              (/\ calls[c].op = "add_habit" /\ calls[c].pc = "done"
               /\ calls[c].result \in {Ok, QuotaExceeded}
               /\ calls'[c] # calls[c])
              => /\ state'[calls[c].user_id] = NoState
                 /\ calls'[c] = Idle /\ n_calls' = n_calls /\ habits' = habits
        /\ \A c \in Tasks :
              (/\ calls[c].op = "add_habit" /\ calls[c].pc # "done"
               /\ calls'[c].pc = "done" /\ calls'[c].result = Ok)
              => Cardinality(habits') = Cardinality(habits) + 1 ]_vars

\* C19 witness: user 1, who had one habit and the quota of 2, added a second
\* habit through the conversation and then was refused a third for the quota;
\* the conversation is over and no call is in flight.
AddFlowEnded ==
    /\ Cardinality(OwnedBy(1)) = DEFAULT_MAX_HABITS
    /\ n_calls = 2
    /\ \A c \in Tasks : calls[c] = Idle
    /\ answer = [user_id |-> 1, text |-> QuotaExceededMsg(DEFAULT_MAX_HABITS)]
    /\ state[1] = NoState

\* C20: /cancel from a user in a conversation state leaves the user with no
\* state and no captured habit_id, and from a user with no state changes
\* nothing; in neither case does it start a call or change a table or the
\* conversation of another user.
CancelFlow ==
    [][ \A u \in Users :
          cmd_cancel(u) =>
              /\ state'[u] = NoState /\ data'[u] = 0
              /\ state[u] = NoState => (state' = state /\ data' = data /\ answer' = answer)
              /\ \A v \in Users \ {u} : state'[v] = state[v] /\ data'[v] = data[v]
              /\ calls' = calls /\ n_calls' = n_calls
              /\ habits' = habits /\ daily_logs' = daily_logs /\ users' = users ]_vars

\* C20 witness: a user in a conversation state was answered "cancelled"; the
\* state and the captured habit_id are gone, no call was made and the habit
\* has the text it had.
CancelledInConversation ==
    /\ answer = [user_id |-> 1, text |-> CancelledMsg]
    /\ state[1] = NoState /\ data[1] = 0
    /\ n_calls = 0
    /\ habits = {FirstHabit}

(***************************************************************************)
(* Properties of the settings menu, under SpecSettings.                    *)
(***************************************************************************)
Owns(user_id, habit_id) == \E h \in habits : h.id = habit_id /\ h.user_id = user_id

\* C21, as claimed: when update_habit_name finds that the captured habit_id
\* is no longer a habit of the user, the user is sent the "session expired"
\* message.
EditInvalidIdSaysExpired ==
    [][ \A c \in Tasks :
          (process_edit_habit_name_resume(c) /\ calls[c].result = NotFound)
          => answer' = [user_id |-> calls[c].user_id, text |-> SessionExpiredMsg] ]_vars

\* C21, amended: a user enters waiting_for_new_name only with the id of a
\* habit the user owns at that moment; a new name of 2 or more characters
\* ends the conversation at once and changes no habit by itself; with no
\* captured id the answer is "session expired" and no call is made; a call for
\* an id that is no longer the user's habit changes no habit, returns
\* not-found from its ownership SELECT, and is answered with the "not found"
\* message of update_habit_name.
EditInvalidIdRefused ==
    [][ /\ \A u \in Users :
              (/\ state'[u] = WaitingForNewName
               /\ state[u] # WaitingForNewName \/ data'[u] # data[u])
              => Owns(u, data'[u])
        /\ (answer' # answer \/ n_calls' # n_calls) =>
              \A u \in {v \in Users : state[v] = WaitingForNewName} :
                  \A c \in Tasks, t \in {x \in FlowTexts : Len(TrimmedText[x]) >= 2} :
                      process_edit_habit_name(c, u, t) =>
                          /\ state'[u] = NoState /\ data'[u] = 0
                          /\ habits' = habits
                          /\ data[u] = 0 =>
                                /\ answer' = [user_id |-> u, text |-> SessionExpiredMsg]
                                /\ calls' = calls
        /\ \A c \in Tasks :
              (/\ calls[c].op = "update_habit_name"
               /\ ~ Owns(calls[c].user_id, calls[c].habit_id)
               /\ calls'[c] # calls[c])
              => /\ habits' = habits
                 /\ calls[c].pc = "select" => calls'[c].result \in {NotFound, StorageError}
                 /\ (calls[c].pc = "done" /\ calls[c].result = NotFound
                        /\ calls'[c] = Idle)
                    => /\ answer' = [user_id |-> calls[c].user_id, text |-> NotFoundMsg]
                       /\ state' = state ]_vars

\* C21 witness: user 1 chose habit 1 for renaming and deleted it before sending
\* the new name; update_habit_name has returned not-found and the conversation
\* is over.
RenameOfDeletedRefused ==
    \E c \in Tasks :
        /\ calls[c].op = "update_habit_name" /\ calls[c].pc = "done"
        /\ calls[c].result = NotFound
        /\ calls[c].user_id = 1 /\ calls[c].habit_id = 1
        /\ <<1, 1>> \in deleted_ok
        /\ habits = {}
        /\ state[1] = NoState /\ data[1] = 0

\* C22: choosing a habit for deletion and the cancel button change no table and
\* start no call; a delete_habit call is started only by the confirm button,
\* with the id of the button and the user who pressed it; and a habit
\* disappears only in a step of a delete_habit call made for that habit by its
\* owner.
DeleteOnlyByOwnerConfirm ==
    [][ /\ \A u \in Users, h \in HabitIds :
              handle_delete_habit_choice(u, h) =>
                  /\ habits' = habits /\ daily_logs' = daily_logs /\ users' = users
                  /\ calls' = calls /\ n_calls' = n_calls
        /\ \A u \in Users :
              handle_delete_cancel(u) =>
                  /\ habits' = habits /\ daily_logs' = daily_logs /\ users' = users
                  /\ calls' = calls /\ n_calls' = n_calls
        /\ \A c \in Tasks :
              (n_calls' # n_calls /\ calls'[c] # calls[c] /\ calls'[c].op = "delete_habit")
              => handle_delete_confirm(c, calls'[c].user_id, calls'[c].habit_id)
        /\ \A h \in habits :
              (~ \E g \in habits' : g.id = h.id)
              => \E c \in Tasks :
                    /\ calls[c].op = "delete_habit" /\ calls'[c] # calls[c]
                    /\ calls[c].habit_id = h.id /\ calls[c].user_id = h.user_id
        /\ \A r \in daily_logs \ daily_logs' :
              \E c \in Tasks, h \in habits :
                    /\ calls[c].op = "delete_habit" /\ calls'[c] # calls[c]
                    /\ h.id = r.habit_id
                    /\ calls[c].habit_id = h.id /\ calls[c].user_id = h.user_id ]_vars

\* C22 witness: habit 1 and its log are gone after its owner pressed the
\* confirm button and was answered "deleted".
DeletedByOwnerConfirm ==
    /\ habits = {} /\ daily_logs = {}
    /\ deleted_ok = {<<1, 1>>}
    /\ answer = [user_id |-> 1, text |-> DeletedMsg]
    /\ \A c \in Tasks : calls[c] = Idle

(***************************************************************************)
(* Properties of the web API, under SpecWeb.                               *)
(***************************************************************************)
\* C23: no request to the web API changes the tables users, habits or
\* daily_logs or their sequences, whoever the user_id and whatever the
\* habit_id; in particular a request about a user with no row creates none.
WebEndpointsReadOnly ==
    [][ /\ users' = users /\ habits' = habits /\ daily_logs' = daily_logs
        /\ habit_seq' = habit_seq /\ log_seq' = log_seq ]_vars

\* C23 witness: the calendar of a user with no row in users and no habit was
\* served, empty, while another user has a habit with a log.
UnknownUserServed ==
    /\ cal.endpoint = "calendar" /\ ~ cal.by_habit /\ cal.status = 200
    /\ cal.user_id = 2 /\ users[2] = 0
    /\ cal.body = {}
    /\ daily_logs # {}

(***************************************************************************)
(* Properties of the dispatcher, under SpecDispatch.                       *)
(***************************************************************************)
\* C24: every stored habit text has at least 2 characters and neither begins
\* nor ends with whitespace.
HabitTextInvariant ==
    \A h \in habits :
        /\ Len(h.habit_text) >= 2
        /\ h.habit_text[1] # " "
        /\ h.habit_text[Len(h.habit_text)] # " "

\* C24 witness: the user has one habit made by /sethabit from " cd " and one
\* made by the add-habit conversation from " ab ".
HabitsFromBothCommands ==
    /\ {h.habit_text : h \in habits} = { <<"a", "b">>, <<"c", "d">> }
    /\ \A c \in Tasks : calls[c] = Idle
    /\ state[1] = NoState

\* C30, as claimed: no command and no text of a main-menu button is ever the
\* habit text of an add_habit or update_habit_name call.
MenuTextNeverHabitName ==
    \A c \in Tasks :
        calls[c].op \in {"add_habit", "update_habit_name"}
        => calls[c].text \notin {Trimmed(t) : t \in MenuTexts}

(***************************************************************************)
(* The connection pool of one event loop: init_db, close_db and _get_pool. *)
(* init_db calls may overlap: each await is a point where another          *)
(* coroutine of the loop runs.                                             *)
(***************************************************************************)
SchemaTables == <<"users", "habits", "daily_logs">>

\* The tables of the persistence core and the conversation stay as they are.
PoolFrame ==
    UNCHANGED <<tables, history, today, calls, n_calls, agg, reminder, cal, chat, racers>>

InitDbDone(c) == db.pc[c] \in {"idle", "returned", "raised"}

\* init_db up to its first await: `if loop in _pools: return`, else the
\* connection parameters are prepared and create_pool is awaited.
init_db(c) ==
    /\ InitDbDone(c)
    /\ db.inits < MaxInits
    /\ db' = [db EXCEPT !.inits = @ + 1,
                        !.pc[c] = IF db.pool # 0 THEN "returned" ELSE "create_pool",
                        !.local[c] = 0]
    /\ PoolFrame

\* _pools[loop] = pool
Register(pool) == pool

\* await asyncpg.create_pool(...) returns a new pool, which is registered.
InitDbCreatePool(c) ==
    /\ db.pc[c] = "create_pool"
    /\ db' = [db EXCEPT !.built = @ + 1,
                        !.local[c] = db.built + 1,
                        !.pool = Register(db.built + 1),
                        !.pc[c] = "users"]
    /\ PoolFrame

\* create_pool raises; init_db raises RuntimeError and registers nothing.
InitDbCreatePoolFails(c) ==
    /\ db.pc[c] = "create_pool"
    /\ db' = [db EXCEPT !.pc[c] = "raised"]
    /\ PoolFrame

\* One CREATE TABLE IF NOT EXISTS statement on a connection of the local pool.
InitDbCreateTable(c) ==
    /\ \E k \in 1..Len(SchemaTables) :
          /\ db.pc[c] = SchemaTables[k]
          /\ db' = [db EXCEPT !.tables = @ \cup {SchemaTables[k]},
                              !.pc[c] = IF k < Len(SchemaTables)
                                        THEN SchemaTables[k + 1]
                                        ELSE "returned"]
    /\ PoolFrame

\* pool.acquire() or a CREATE TABLE statement raises: init_db raises with the
\* pool left registered.
InitDbCreateTableFails(c) ==
    /\ \E k \in 1..Len(SchemaTables) : db.pc[c] = SchemaTables[k]
    /\ db' = [db EXCEPT !.pc[c] = "raised"]
    /\ PoolFrame

\* pool = _pools.pop(loop, None); if pool: await pool.close()
close_db ==
    /\ db' = [db EXCEPT !.pool = 0,
                        !.closed = IF db.pool # 0 THEN @ \cup {db.pool} ELSE @]
    /\ PoolFrame

\* A storage operation starts: _get_pool() returns the loop's pool or raises
\* RuntimeError.
GetPool ==
    /\ db' = [db EXCEPT !.got = IF db.pool = 0 THEN "RuntimeError" ELSE "pool"]
    /\ PoolFrame

\* The pools built and not closed.
OpenPools == (1..db.built) \ db.closed

InitPool ==
    /\ InitEmpty
    /\ today = 1
    /\ calls = [c \in Tasks |-> Idle]
    /\ n_calls = 0
    /\ raced = {}
    /\ deleted_ok = {}
    /\ conflicted = {}
    /\ agg = NoQuery
    /\ reminder = NoRun
    /\ cal = NoRequest
    /\ state = [u \in Users |-> NoState]
    /\ data = [u \in Users |-> 0]
    /\ answer = NoAnswer
    /\ db = NoDb
    /\ racers = NoRacers

NextPool ==
    \/ \E c \in Tasks : init_db(c)
    \/ \E c \in Tasks : InitDbCreatePool(c)
    \/ \E c \in Tasks : InitDbCreatePoolFails(c)
    \/ \E c \in Tasks : InitDbCreateTable(c)
    \/ \E c \in Tasks : InitDbCreateTableFails(c)
    \/ close_db
    \/ GetPool

SpecPool == InitPool /\ [][NextPool]_vars

(***************************************************************************)
(* Calls of add_habit for one user, made side by side: each await of       *)
(* add_habit is a point where the other calls run.                         *)
(***************************************************************************)
Racer == 1

RaceFrame ==
    UNCHANGED <<daily_logs, log_seq, history, today, calls, n_calls, agg, reminder, cal,
                chat, db>>

\* add_habit(Racer, "ab") is called.
RacerStart(i) ==
    /\ racers[i].pc = "idle"
    /\ racers' = [racers EXCEPT ![i].pc = "users_select"]
    /\ UNCHANGED <<users, habits, habit_seq>>
    /\ RaceFrame

\* get_user_max_habits: SELECT max_habits FROM users WHERE user_id = $1
RacerMaxHabitsSelect(i) ==
    /\ racers[i].pc = "users_select"
    /\ racers' = IF users[Racer] # 0
                 THEN [racers EXCEPT ![i].pc = "count", ![i].max_habits = users[Racer]]
                 ELSE [racers EXCEPT ![i].pc = "users_insert"]
    /\ UNCHANGED <<users, habits, habit_seq>>
    /\ RaceFrame

\* get_user_max_habits: the INSERT, then return DEFAULT_MAX_HABITS
RacerMaxHabitsInsert(i) ==
    /\ racers[i].pc = "users_insert"
    /\ users' = InsertUserOnConflictDoNothing(Racer).users
    /\ racers' = [racers EXCEPT ![i].pc = "count", ![i].max_habits = DEFAULT_MAX_HABITS]
    /\ UNCHANGED <<habits, habit_seq>>
    /\ RaceFrame

\* get_habits_count and the quota test
RacerCount(i) ==
    /\ racers[i].pc = "count"
    /\ racers' = IF QuotaReached(get_habits_count(Racer), racers[i].max_habits)
                 THEN [racers EXCEPT ![i].pc = "done", ![i].result = QuotaExceeded]
                 ELSE [racers EXCEPT ![i].pc = "insert"]
    /\ UNCHANGED <<users, habits, habit_seq>>
    /\ RaceFrame

\* INSERT INTO habits (user_id, habit_text) VALUES ($1, $2); return True, None
RacerInsert(i) ==
    /\ racers[i].pc = "insert"
    /\ habit_seq' = habit_seq + 1
    /\ habits' = habits \cup {[id |-> habit_seq + 1, user_id |-> Racer,
                               habit_text |-> <<"a", "b">>]}
    /\ racers' = [racers EXCEPT ![i].pc = "done", ![i].result = Ok]
    /\ UNCHANGED users
    /\ RaceFrame

\* The user is new, or has a users row with the default quota and owns any
\* number of habits up to it.
InitRace ==
    /\ \E n \in 0..DEFAULT_MAX_HABITS :
          /\ users \in {[u \in Users |-> 0],
                        [u \in Users |-> IF u = Racer THEN DEFAULT_MAX_HABITS ELSE 0]}
          /\ users[Racer] = 0 => n = 0
          /\ habits = {[id |-> k, user_id |-> Racer, habit_text |-> <<"a", "b">>] :
                        k \in 1..n}
          /\ habit_seq = n
    /\ daily_logs = {} /\ log_seq = 0
    /\ first_level = {}
    /\ today = 1
    /\ calls = [c \in Tasks |-> Idle]
    /\ n_calls = 0
    /\ raced = {}
    /\ deleted_ok = {}
    /\ conflicted = {}
    /\ agg = NoQuery
    /\ reminder = NoRun
    /\ cal = NoRequest
    /\ state = [u \in Users |-> NoState]
    /\ data = [u \in Users |-> 0]
    /\ answer = NoAnswer
    /\ db = NoDb
    /\ racers = NoRacers

NextRace ==
    \/ \E i \in 1..MaxRacers : RacerStart(i)
    \/ \E i \in 1..MaxRacers : RacerMaxHabitsSelect(i)
    \/ \E i \in 1..MaxRacers : RacerMaxHabitsInsert(i)
    \/ \E i \in 1..MaxRacers : RacerCount(i)
    \/ \E i \in 1..MaxRacers : RacerInsert(i)

SpecRace == InitRace /\ [][NextRace]_vars

(***************************************************************************)
(* Properties of the pool, under SpecPool.                                 *)
(***************************************************************************)
\* C25, as claimed: at any moment at most one pool built for the loop is open,
\* however init_db calls repeat or overlap.
OnePoolPerLoop == Cardinality(OpenPools) <= 1

(***************************************************************************)
(* Properties of the add_habit race, under SpecRace.                       *)
(***************************************************************************)
RacerQuota == IF users[Racer] = 0 THEN DEFAULT_MAX_HABITS ELSE users[Racer]

RacersCalled == {i \in 1..MaxRacers : racers[i].pc # "idle"}

RacerHabits == {h \in habits : h.user_id = Racer}

\* C26, as claimed: whatever the number of add_habit calls interleaving, the
\* user owns at most one habit more than the quota.
RaceAtMostOneExtra == Cardinality(RacerHabits) <= RacerQuota + 1

\* C26, amended: with k add_habit calls made, the user owns at most k - 1
\* habits more than the quota (and at most the quota when none was made).
RaceAtMostCallsExtra ==
    Cardinality(RacerHabits) <=
        RacerQuota + (IF RacersCalled = {} THEN 0 ELSE Cardinality(RacersCalled) - 1)

\* C26 witness: three interleaved calls have all returned success and the user
\* owns two habits more than the quota.
RaceTwoExtra ==
    /\ \A i \in 1..3 : racers[i].pc = "done" /\ racers[i].result = Ok
    /\ Cardinality(RacerHabits) = RacerQuota + 2

(***************************************************************************)
(* Properties of the persistence core under interleaving and failure,      *)
(* under Spec.                                                             *)
(***************************************************************************)
\* C27, as claimed: a log, once saved, is in daily_logs with the level it was
\* saved with unless a delete_habit of its habit has returned success or is
\* between its two DELETE statements; a delete_habit that failed leaves it.
LogKeptUntilDeleted ==
    \A f \in first_level :
        \/ \E r \in daily_logs :
              r.habit_id = f[1] /\ r.log_date = f[2] /\ r.efficiency_level = f[3]
        \/ \E u \in Users : <<f[1], u>> \in deleted_ok
        \/ \E c \in CallsOf("delete_habit") :
              calls[c].habit_id = f[1] /\ calls[c].pc = "delete_habit"

\* C29, as claimed: an update_habit_name or delete_habit call returns success
\* only if the habits row was there for its UPDATE or DELETE statement.
SuccessOnlyWhenRowChanged ==
    [][ \A c \in CallsOf("update_habit_name") \cup CallsOf("delete_habit") :
          ( /\ calls[c].pc # "done"
            /\ calls'[c].pc = "done"
            /\ calls'[c].result = Ok )
          => SelectOwnedHabit(calls[c].habit_id, calls[c].user_id) # {} ]_vars

(***************************************************************************)
(* Ties in the aggregation, under SpecAgg.                                 *)
(***************************************************************************)
\* C28: the level of an entry is the level of the row scanned first among the
\* rows of its date that have the highest rank of that date: a row scanned
\* later replaced the level kept only if it ranked strictly higher.
TieKeepsFirstScanned ==
    agg.user_id # 0 =>
        \A k \in DOMAIN agg.out :
            LET of_date == {i \in DOMAIN agg.rows :
                               DateKey(agg.rows[i].log_date) = agg.out[k][1]}
                best == {i \in of_date :
                            \A j \in of_date :
                                RankOf(agg.rows[j].efficiency_level)
                                    <= RankOf(agg.rows[i].efficiency_level)}
            IN  \E i \in best :
                    /\ \A j \in best : i <= j
                    /\ agg.out[k][2] = agg.rows[i].efficiency_level

\* C28 witness: the query scanned two rows of one date with equal rank and
\* different levels, and the entry has the level of the first.
TieScanned ==
    /\ agg.user_id = 1
    /\ Len(agg.rows) = 2
    /\ agg.rows[1].log_date = agg.rows[2].log_date
    /\ RankOf(agg.rows[1].efficiency_level) = RankOf(agg.rows[2].efficiency_level)
    /\ agg.rows[1].efficiency_level # agg.rows[2].efficiency_level
    /\ Len(agg.out) = 1
    /\ agg.out[1][2] = agg.rows[1].efficiency_level

(***************************************************************************)
(* The two calendars compared, under SpecCalendar.                         *)
(***************************************************************************)
\* The order of the calendar values: good > minimum > no-data.
CalendarRank(value) ==
    CASE value = "good" -> 3
      [] value = "minimum" -> 2
      [] OTHER -> 1

\* The entries get_calendar(user_id, h) serves, over all habits h of the user.
PerHabitEntries(user_id) ==
    UNION { CalendarResult({}, get_daily_logs_for_habit(h.id)) :
            h \in {g \in habits : g.user_id = user_id} }

\* C31: the calendar served without habit_id has the dates of the per-habit
\* calendars of the user's habits, and maps each date to the highest-ranked
\* value (good > minimum > no-data) the per-habit calendars give for it.
AggregatedCalendarAgrees ==
    (cal.endpoint = "calendar" /\ ~ cal.by_habit /\ cal.status = 200) =>
        LET per == PerHabitEntries(cal.user_id)
        IN  /\ {e[1] : e \in cal.body} = {e[1] : e \in per}
            /\ \A e \in cal.body :
                  /\ e \in per
                  /\ \A q \in per : q[1] = e[1] => CalendarRank(q[2]) <= CalendarRank(e[2])

\* C31 witness: the aggregated calendar was served for a user whose two habits
\* have logs of one date, one with the old spelling "Da" and one spelled
\* "Minimum", and the date is "good".
AggregatedOverOldSpellings ==
    /\ cal.endpoint = "calendar" /\ ~ cal.by_habit /\ cal.status = 200
    /\ cal.user_id = 1
    /\ {<<r.habit_id, r.log_date, r.efficiency_level>> : r \in daily_logs}
          = { <<1, 9, LevelDa>>, <<2, 9, LevelMinimum>> }
    /\ cal.body = { <<DateKey(9), "good">> }

(***************************************************************************)
(* What a normal return of init_db guarantees, under SpecPool.             *)
(***************************************************************************)
\* init_db call c returns normally in this step.
InitDbReturns(c) ==
    /\ db'.pc[c] = "returned"
    /\ db.pc[c] # "returned" \/ db'.inits # db.inits

\* C32, as claimed: when an init_db call returns normally while no other
\* init_db call is running, a pool is registered for the loop and the tables
\* users, habits and daily_logs have been created.
InitDbReturnMeansReady ==
    [][ \A c \in Tasks :
          ( /\ InitDbReturns(c)
            /\ \A d \in Tasks \ {c} : InitDbDone(d) )
          => /\ db'.pool # 0
             /\ db'.tables = {SchemaTables[k] : k \in 1..Len(SchemaTables)} ]_vars

====
